---- MODULE Spec2Model ----
(***************************************************************************)
(* Peer-side chaincode session handler (openchain/chaincode/handler.go).   *)
(*                                                                         *)
(* One Handler owns one stream to one chaincode worker.  The model has the *)
(* pump (processStream), its receiver goroutine, the FSM with its          *)
(* callbacks (HandleMessage), the background goroutines started by the     *)
(* callbacks, the host's calls (initOrReady, sendExecuteMessage, the       *)
(* caller's wait on the response channel and deleteTxContext), the handler *)
(* mutex and the stream.                                                   *)
(*                                                                         *)
(* Granularity: one action is one critical section of the handler mutex,   *)
(* or one blocking operation (a channel hand-off, a Send, a ledger or      *)
(* support-plane call).  HandleMessage runs on the pump goroutine and is   *)
(* one action up to the point where it blocks.                             *)
(***************************************************************************)
EXTENDS Integers, Sequences, FiniteSets, TLC

\* ------------------------------------------------------------------ bounds
MaxFrames == 3      \* frames the worker sends over the life of the stream
MaxCalls  == 1      \* host calls (initOrReady / sendExecuteMessage)
MaxRequests == 3    \* requests of the worker after its REGISTER
MaxHostCalls == 2   \* host calls in the session of the host calls
MaxPages  == 2      \* a range holds at most MaxPages * K + 1 entries

\* ------------------------------------------------------ program constants
maxRangeQueryStateLimit == 100
ChanCap == 1        \* make(chan *pb.ChaincodeMessage, 1)

UUIDs == {"u1", "u2"}

\* FSM states
createdstate     == "created"
establishedstate == "established"
initstate        == "init"
readystate       == "ready"
transactionstate == "transaction"
busyinitstate    == "busyinit"
busyxactstate    == "busyxact"
endstate         == "end"

States == {createdstate, establishedstate, initstate, readystate,
           transactionstate, busyinitstate, busyxactstate, endstate}

ReadTypes  == {"GET_STATE", "RANGE_QUERY_STATE", "RANGE_QUERY_STATE_NEXT",
               "RANGE_QUERY_STATE_CLOSE"}
WriteTypes == {"PUT_STATE", "DEL_STATE", "INVOKE_CHAINCODE"}

\* ------------------------------------------------------------- messages
\* pb.ChaincodeMessage{Type, Uuid, Payload}.  The payload is kept as its
\* decoded content: ok = the payload unmarshals; id = iterator id;
\* n = number of entries (of the requested range, or of a response frame);
\* first = index of the first entry of a response frame; more = HasMore.
Msg(t, u) == [type |-> t, uuid |-> u, ok |-> TRUE, id |-> 0, n |-> 0,
              first |-> 0, more |-> FALSE]
NoMsg == Msg("NONE", "")

VARIABLES
    fsm,            \* handler.FSM.Current()
    registry,       \* "none" | "registered" | "deregistered"
    txCtxs,         \* handler.txCtxs: uuid -> index into ctxs, 0 = no entry
    ctxs,           \* every transactionContext ever allocated
    uuidMap,        \* handler.uuidMap: the in-flight guard
    isTransaction,  \* handler.isTransaction: uuid -> "absent" | "true" | "false"
    iters,          \* every range-scan iterator ever opened
    mutex,          \* holder of handler.Lock(): "free", "pump", "task", "call"
    pump,           \* processStream
    rcv,            \* the receiver goroutine of processStream
    err,            \* the err variable shared by processStream and the receiver
    tasks,          \* the background goroutines started by the callbacks
    calls,          \* the host's calls
    sent,           \* frames written by ChatStream.Send, in order
    sending,        \* number of ChatStream.Send calls in progress
    crashed,        \* a goroutine panicked
    readyNotify,    \* values sent on handler.readyNotify
    nframes,        \* Recv results so far
    env,            \* what is attached to the handler: see Scenario
    deployTXSecContext  \* handler.deployTXSecContext

vars == <<fsm, registry, txCtxs, ctxs, uuidMap, isTransaction, iters, mutex,
          pump, rcv, err, tasks, calls, sent, sending, crashed,
          readyNotify, nframes, env, deployTXSecContext>>

\* ------------------------------------------------------------ FSM table
\* A table with one more row, ERROR ready -> end (every ERROR ends the
\* session): C1 tells it from the table of the handler.
TransitionErrorEnds(s, ev) ==
    CASE ev = "REGISTER"    /\ s = createdstate     -> establishedstate
      [] ev = "INIT"        /\ s = establishedstate -> initstate
      [] ev = "READY"       /\ s = establishedstate -> readystate
      [] ev = "TRANSACTION" /\ s = readystate       -> transactionstate
      [] ev \in WriteTypes  /\ s = transactionstate -> busyxactstate
      [] ev \in WriteTypes  /\ s = initstate        -> busyinitstate
      [] ev = "COMPLETED"   /\ s \in {initstate, readystate, transactionstate}
                                                    -> readystate
      [] ev \in ReadTypes   /\ s \in {readystate, initstate, busyinitstate,
                                      transactionstate, busyxactstate} -> s
      [] ev = "ERROR"       /\ s \in {initstate, readystate} -> endstate
      [] ev = "ERROR"       /\ s = transactionstate -> readystate
      [] ev = "ERROR"       /\ s = busyinitstate    -> initstate
      [] ev = "ERROR"       /\ s = busyxactstate    -> transactionstate
      [] ev = "RESPONSE"    /\ s = busyinitstate    -> initstate
      [] ev = "RESPONSE"    /\ s = busyxactstate    -> transactionstate
      [] OTHER -> "none"

\* A table that accepts REGISTER again in established
TransitionReRegister(s, ev) ==
    CASE ev = "REGISTER"    /\ s = createdstate     -> establishedstate
      [] ev = "REGISTER"    /\ s = establishedstate -> establishedstate
      [] ev = "INIT"        /\ s = establishedstate -> initstate
      [] ev = "READY"       /\ s = establishedstate -> readystate
      [] ev = "TRANSACTION" /\ s = readystate       -> transactionstate
      [] ev \in WriteTypes  /\ s = transactionstate -> busyxactstate
      [] ev \in WriteTypes  /\ s = initstate        -> busyinitstate
      [] ev = "COMPLETED"   /\ s \in {initstate, readystate, transactionstate}
                                                    -> readystate
      [] ev \in ReadTypes   /\ s \in {readystate, initstate, busyinitstate,
                                      transactionstate, busyxactstate} -> s
      [] ev = "ERROR"       /\ s = initstate        -> endstate
      [] ev = "ERROR"       /\ s = transactionstate -> readystate
      [] ev = "ERROR"       /\ s = busyinitstate    -> initstate
      [] ev = "ERROR"       /\ s = busyxactstate    -> transactionstate
      [] ev = "RESPONSE"    /\ s = busyinitstate    -> initstate
      [] ev = "RESPONSE"    /\ s = busyxactstate    -> transactionstate
      [] OTHER -> "none"

\* fsm.Events of newChaincodeSupportHandler: the destination of event ev in
\* state s, "none" when the FSM has no such transition.
Transition(s, ev) ==
    CASE ev = "REGISTER"    /\ s = createdstate     -> establishedstate
      [] ev = "INIT"        /\ s = establishedstate -> initstate
      [] ev = "READY"       /\ s = establishedstate -> readystate
      [] ev = "TRANSACTION" /\ s = readystate       -> transactionstate
      [] ev \in WriteTypes  /\ s = transactionstate -> busyxactstate
      [] ev \in WriteTypes  /\ s = initstate        -> busyinitstate
      [] ev = "COMPLETED"   /\ s \in {initstate, readystate, transactionstate}
                                                    -> readystate
      [] ev \in ReadTypes   /\ s \in {readystate, initstate, busyinitstate,
                                      transactionstate, busyxactstate} -> s
      [] ev = "ERROR"       /\ s = initstate        -> endstate
      [] ev = "ERROR"       /\ s = transactionstate -> readystate
      [] ev = "ERROR"       /\ s = busyinitstate    -> initstate
      [] ev = "ERROR"       /\ s = busyxactstate    -> transactionstate
      [] ev = "RESPONSE"    /\ s = busyinitstate    -> initstate
      [] ev = "RESPONSE"    /\ s = busyxactstate    -> transactionstate
      [] OTHER -> "none"

\* an isRunning whose empty cases do not fall through
isRunningNoFallthrough(s) ==
    CASE s = createdstate     -> TRUE
      [] s = establishedstate -> TRUE
      [] s = initstate        -> FALSE
      [] OTHER                -> TRUE

\* handler.isRunning(): the switch on FSM.Current(), s the current state
isRunning(s) ==
    CASE s = createdstate     -> FALSE
      [] s = establishedstate -> FALSE
      [] s = initstate        -> FALSE
      [] OTHER                -> TRUE

\* handler.FSM.Cannot(event)
Cannot(s, ev) == Transition(s, ev) = "none"

\* ------------------------------------------------------- handler tables
\* registerHandler (chaincode_support.go) allocates txCtxs, uuidMap and
\* isTransaction; before it the three maps are nil.
TablesExist == registry # "none"

\* transactionContext{transactionSecContext, responseNotifier,
\* rangeQueryIteratorMap}; delivered counts the frames ever put on
\* responseNotifier.
NewCtx(u, sec) == [uuid |-> u, sec |-> sec, chan |-> <<>>, iters |-> {},
                   delivered |-> 0]

\* statemgmt.RangeScanIterator over n entries: pos entries were passed by
\* Next(); closes counts the Close() calls; ctx is the owning context;
\* notified tells that notify closed it.
NewIter(n, c) == [n |-> n, pos |-> 0, closes |-> 0, ctx |-> c,
                  notified |-> FALSE]

Min(a, b) == IF a < b THEN a ELSE b

\* handler.getIsTransaction(uuid): false for a missing entry and for a nil map
getIsTransaction(isT, u) == u \in DOMAIN isT /\ isT[u] = "true"

\* handler.deregister(): deregisters only a registered handler
deregister(reg) == IF reg = "registered" THEN "deregistered" ELSE reg

\* chaincodeSupport.getSecHelper() != nil
secHelper == env.secHelper

\* handler.encryptOrDecrypt(): TRUE when it returns no error.  c is the
\* context txCtxs holds for the uuid (0 = none).
CryptoOk(cx, c) ==
    \/ ~secHelper
    \/ /\ c # 0
       /\ cx[c].sec \in {"NEW", "EXECUTE", "QUERY"}

\* ------------------------------------------------ background goroutines
\* A goroutine started by a callback for message m.  isT0 is
\* isTransaction[m.uuid] when the message was handled; peers are the
\* earlier goroutines of the same uuid that had not finished when this one
\* ran its first statement; held tells whether the guard was taken then.
\* op is the ledger or support-plane call the goroutine made ("none" so
\* far), opIsT / opFsm / opCtx are getIsTransaction(uuid), the FSM state
\* and txCtxs[uuid] at the moment of that call, committed its readCommitted
\* argument; failed tells that LaunchChaincode or Execute returned an error
\* to enterBusyState.
NewTask(m, isT) == [msg |-> m, pc |-> "start", guard |-> FALSE,
                    reply |-> NoMsg, ctx |-> 0, it |-> 0, isT0 |-> isT,
                    peers |-> {}, held |-> FALSE, replied |-> FALSE,
                    op |-> "none", opIsT |-> FALSE, opFsm |-> "none",
                    opCtx |-> 0, committed |-> FALSE, failed |-> FALSE]

\* ---------------------------------------------------------- HandleMessage
\* The handler state HandleMessage and the callbacks read and write, as a
\* record; ret is HandleMessage's result ("nil" or "err"), blocked tells
\* that notify is blocked on a full responseNotifier while delivering dmsg.
H0 == [fsm |-> fsm, registry |-> registry, isTransaction |-> isTransaction,
       ctxs |-> ctxs, iters |-> iters, tasks |-> tasks, sent |-> sent,
       readyNotify |-> readyNotify, ret |-> "nil", blocked |-> FALSE,
       dmsg |-> NoMsg]

\* a serialSend that writes the frame twice
HSendTwice(h, m, sok) ==
    IF sok THEN [h EXCEPT !.sent = Append(Append(@, m), m)] ELSE h

\* serialSend on the pump goroutine (the mutex is free when the pump runs);
\* sok: ChatStream.Send returns no error
HSend(h, m, sok) == IF sok THEN [h EXCEPT !.sent = Append(@, m)] ELSE h

\* the iterators of context c get one more Close()
CloseAll(its, cx, c) ==
    [i \in DOMAIN its |->
        IF i \in cx[c].iters
        THEN [its[i] EXCEPT !.closes = Min(@ + 1, 3), !.notified = TRUE]
        ELSE its[i]]

\* handler.notify(msg)
HNotify(h, m) ==
    LET c == IF m.uuid \in UUIDs THEN txCtxs[m.uuid] ELSE 0 IN
    IF c = 0 THEN h
    ELSE IF Len(h.ctxs[c].chan) >= ChanCap
         THEN [h EXCEPT !.blocked = TRUE, !.dmsg = m]
         ELSE [h EXCEPT !.ctxs[c].chan = Append(@, m),
                        !.ctxs[c].delivered = Min(@ + 1, 3),
                        !.iters = CloseAll(h.iters, h.ctxs, c)]

\* a deleteIsTransaction that leaves the mark in place
HDelIsTKeep(h, u) == h

\* handler.deleteIsTransaction(uuid)
HDelIsT(h, u) ==
    IF u \in DOMAIN h.isTransaction
    THEN [h EXCEPT !.isTransaction[u] = "absent"] ELSE h

\* handler.notifyDuringStartup(val)
HStartup(h, v) == [h EXCEPT !.readyNotify = Append(@, v)]

\* go func() of handleGetState, handleRangeQueryState..., enterBusyState,
\* handleQueryChaincode
HSpawn(h, m) ==
    [h EXCEPT !.tasks = Append(@, NewTask(m, getIsTransaction(h.isTransaction, m.uuid)))]

\* a beforeRegisterEvent that cancels a failed registration without
\* notifyDuringStartup(false)
beforeRegisterEventSilent(h, m, regOk, sok) ==
    IF ~m.ok THEN [h EXCEPT !.ret = "err"]
    ELSE IF ~regOk THEN [h EXCEPT !.ret = "err"]
    ELSE LET h1 == [h EXCEPT !.registry = "registered"] IN
         IF sok THEN HSend(h1, Msg("REGISTERED", ""), sok)
         ELSE [HStartup(h1, FALSE) EXCEPT !.ret = "err"]

\* beforeRegisterEvent; regOk: registerHandler accepts the handler.
\* The result has ret = "err" when the event was cancelled.
beforeRegisterEvent(h, m, regOk, sok) ==
    IF ~m.ok THEN [h EXCEPT !.ret = "err"]
    ELSE IF ~regOk THEN [HStartup(h, FALSE) EXCEPT !.ret = "err"]
    ELSE LET h1 == [h EXCEPT !.registry = "registered"] IN
         IF sok THEN HSend(h1, Msg("REGISTERED", ""), sok)
         ELSE [HStartup(h1, FALSE) EXCEPT !.ret = "err"]

\* enterInitState
enterInitState(h, m, sok) ==
    IF m.type = "INIT"
    THEN LET h1 == [h EXCEPT !.isTransaction[m.uuid] = "true"] IN
         IF sok THEN HSend(h1, m, sok)
         ELSE HNotify(h1, Msg("ERROR", m.uuid))
    ELSE h

\* an enter_ready callback that sends the message itself
enterReadyStateSends(h, m) ==
    [HNotify(HDelIsT(h, m.uuid), m) EXCEPT !.sent = Append(@, m)]

\* enterReadyState
enterReadyState(h, m) == HNotify(HDelIsT(h, m.uuid), m)

\* enterEndState (deregister is deferred: it runs when notify has returned)
enterEndState(h, m) ==
    LET h1 == HNotify(HDelIsT(h, m.uuid), m) IN
    IF h1.blocked THEN h1 ELSE [h1 EXCEPT !.registry = deregister(@)]

\* the enter_<state> callback of the FSM
EnterState(h, dst, m, sok) ==
    CASE dst = establishedstate -> HStartup(h, TRUE)
      [] dst = initstate        -> enterInitState(h, m, sok)
      [] dst = readystate       -> enterReadyState(h, m)
      [] dst \in {busyinitstate, busyxactstate} -> HSpawn(h, m)
      [] dst = endstate         -> enterEndState(h, m)
      [] OTHER -> h

\* an FSM.Event that runs the enter_ callback of the state on a self-loop
FSMEventReenter(h, m, regOk, sok) ==
    LET dst == Transition(h.fsm, m.type)
        hb  == CASE m.type = "REGISTER" -> beforeRegisterEvent(h, m, regOk, sok)
                 [] m.type = "INIT"     -> HStartup(h, TRUE)
                 [] OTHER -> h
    IN  IF hb.ret = "err" THEN hb
        ELSE IF dst = h.fsm
             THEN EnterState(IF m.type \in ReadTypes THEN HSpawn(hb, m) ELSE hb,
                             dst, m, sok)
             ELSE EnterState([hb EXCEPT !.fsm = dst], dst, m, sok)

\* FSM.Event(msg.Type, msg) followed by filterError
FSMEvent(h, m, regOk, sok) ==
    LET dst == Transition(h.fsm, m.type)
        hb  == CASE m.type = "REGISTER" -> beforeRegisterEvent(h, m, regOk, sok)
                 [] m.type = "INIT"     -> HStartup(h, TRUE)
                 [] OTHER -> h
    IN  IF hb.ret = "err" THEN hb
        ELSE IF dst = h.fsm
             THEN IF m.type \in ReadTypes THEN HSpawn(hb, m) ELSE hb
             ELSE EnterState([hb EXCEPT !.fsm = dst], dst, m, sok)

\* The outcomes drawn for an operation of the kind k that can fail outside
\* the handler: TRUE = no error.
Outcomes(k) == IF k \in env.fails THEN BOOLEAN ELSE {TRUE}

\* HandleMessage(m) calls serialSend itself: REGISTERED in
\* beforeRegisterEvent, INIT in enterInitState, ERROR for a write in query
\* context
HandlerSends(m) ==
    \/ m.type = "REGISTER" /\ fsm = createdstate /\ m.ok
    \/ m.type = "INIT" /\ fsm = establishedstate
    \/ /\ m.type \in WriteTypes
       /\ Cannot(fsm, m.type)
       /\ ~getIsTransaction(isTransaction, m.uuid)
SendOutcomes(m) == IF HandlerSends(m) THEN Outcomes("send") ELSE {TRUE}

\* Handler.HandleMessage(msg)
\* regOk: registerHandler accepts the handler; sok: the Send that
\* HandleMessage makes, if any, returns no error.
HandleMessage(m, regOk, sok) ==
    LET h == H0 IN
    CASE m.type = "QUERY_COMPLETED" ->
            LET h1 == HDelIsT(h, m.uuid)
                m1 == IF CryptoOk(h1.ctxs, txCtxs[m.uuid]) THEN m
                      ELSE [m EXCEPT !.type = "QUERY_ERROR"]
            IN  HNotify(h1, m1)
      [] m.type = "QUERY_ERROR" -> HNotify(HDelIsT(h, m.uuid), m)
      [] m.type = "INVOKE_QUERY" -> HSpawn(h, m)
      [] OTHER ->
            IF Cannot(h.fsm, m.type)
            THEN IF m.type \in WriteTypes /\ ~getIsTransaction(h.isTransaction, m.uuid)
                 THEN [HSend(h, Msg("ERROR", m.uuid), sok) EXCEPT !.ret = "err"]
                 ELSE [h EXCEPT !.ret = "err"]
            ELSE FSMEvent(h, m, regOk, sok)

\* ------------------------------------------------------------------ Init
\* newChaincodeSupportHandler, and processStream up to its first select:
\* the receiver goroutine is started and Recv is outstanding.
\* processStream at pc; ev is the type of the message last passed to
\* HandleMessage; ret is what the call the pump made last returned: "nil",
\* "handle" (HandleMessage returned an error), "send" (the forward
\* returned an error), or the error of the end of the stream.
PumpAt(pc, ev) == [pc |-> pc, msg |-> NoMsg, send |-> FALSE, dmsg |-> NoMsg,
                   recv |-> FALSE, result |-> "none", ev |-> ev,
                   ret |-> "nil"]

InitWith(E) ==
    /\ fsm = createdstate
    /\ registry = "none"
    /\ txCtxs = [u \in UUIDs |-> 0]
    /\ ctxs = <<>>
    /\ uuidMap = {}
    /\ isTransaction = [u \in UUIDs |-> "absent"]
    /\ iters = <<>>
    /\ mutex = "free"
    /\ pump = PumpAt("select", "NONE")
    /\ rcv = [pc |-> "recv", in |-> NoMsg, out |-> 1]
    /\ err = "nil"
    /\ tasks = <<>>
    /\ calls = <<>>
    /\ sent = <<>>
    /\ sending = 0
    /\ crashed = FALSE
    /\ readyNotify = <<>>
    /\ nframes = 0
    /\ env \in E
    /\ deployTXSecContext = "nil"

\* ---------------------------------------------------------------- stream
\* The sizes of the ranges a RANGE_QUERY_STATE can ask for.
K == maxRangeQueryStateLimit
RangeSizes == {0, K - 1} \cup {p * K + r : p \in 1 .. MaxPages, r \in {0, 1}}

\* The uuids are interchangeable until one of them is in use; the first
\* one used is "u1".
InUse(u) ==
    \/ txCtxs[u] # 0
    \/ isTransaction[u] # "absent"
    \/ \E i \in DOMAIN ctxs : ctxs[i].uuid = u
    \/ \E i \in DOMAIN tasks : tasks[i].msg.uuid = u
    \/ \E i \in DOMAIN calls : calls[i].msg.uuid = u
    \/ \E i \in DOMAIN sent : sent[i].uuid = u
FreshUUIDs == IF InUse("u1") THEN env.uuids ELSE {"u1"}

\* The frames of type t the worker can send.  REGISTER carries no uuid of
\* interest; ok = FALSE is a payload that does not unmarshal.
FramesOf(t) ==
    CASE t = "REGISTER" ->
            {[Msg(t, "") EXCEPT !.ok = b] : b \in Outcomes("payload")}
      [] t \in {"PUT_STATE", "INVOKE_CHAINCODE", "INVOKE_QUERY"} ->
            {[Msg(t, u) EXCEPT !.ok = b] :
                u \in FreshUUIDs, b \in Outcomes("payload")}
      [] t = "RANGE_QUERY_STATE" ->
            {[Msg(t, u) EXCEPT !.n = n] : u \in FreshUUIDs, n \in env.sizes}
            \cup {[Msg(t, u) EXCEPT !.ok = b] :
                     u \in FreshUUIDs, b \in Outcomes("payload") \ {TRUE}}
      [] t \in {"RANGE_QUERY_STATE_NEXT", "RANGE_QUERY_STATE_CLOSE"} ->
            {[Msg(t, u) EXCEPT !.id = i] : u \in FreshUUIDs, i \in env.ids}
            \cup {[Msg(t, u) EXCEPT !.ok = b] :
                     u \in FreshUUIDs, b \in Outcomes("payload") \ {TRUE}}
      [] OTHER -> {Msg(t, u) : u \in FreshUUIDs}

InFrames == UNION {FramesOf(t) : t \in env.types}

\* A frame Recv returned that the pump has not taken; its content is drawn
\* from InFrames when the pump takes it.
Frame == Msg("FRAME", "")

\* ChatStream.Recv() returns io.EOF ("EOF"), another error ("err"), or a nil
\* message without error ("nilmsg"): in2, err = Recv()
RecvEnd(e) ==
    /\ ~crashed
    /\ rcv.pc = "recv"
    /\ rcv' = [rcv EXCEPT !.pc = "ret", !.in = NoMsg]
    /\ err' = IF e = "nilmsg" THEN "nil" ELSE e
    /\ UNCHANGED <<fsm, registry, txCtxs, ctxs, uuidMap, isTransaction, iters,
                   mutex, pump, tasks, calls, sent, sending, crashed,
                   readyNotify, nframes, env,
                   deployTXSecContext>>

\* ------------------------------------------------------------------ pump
\* A loop top that starts a receiver goroutine on every iteration
LoopTopAlways(recvFlag, r, ev, ret) ==
    /\ pump' = [PumpAt("select", ev) EXCEPT !.ret = ret]
    /\ err' = "nil"
    /\ rcv' = [pc |-> "recv", in |-> NoMsg, out |-> r.out + 1]

\* The top of the for loop of processStream: err = nil and, when recv is
\* set, a new receiver goroutine.  r is the receiver before the loop top.
LoopTop(recvFlag, r, ev, ret) ==
    /\ pump' = [PumpAt("select", ev) EXCEPT !.ret = ret]
    /\ err' = "nil"
    /\ rcv' = IF recvFlag THEN [pc |-> "recv", in |-> NoMsg, out |-> r.out + 1]
              ELSE r

\* processStream returns (defer handler.deregister()); m is the message it
\* was handling
PumpReturn(reg, e, ev, m) ==
    /\ pump' = [PumpAt("done", ev) EXCEPT !.result = e, !.ret = e, !.msg = m]
    /\ registry' = deregister(reg)

\* The receiver goroutine after it handed its message to the pump
RcvTaken == [pc |-> "idle", in |-> NoMsg, out |-> rcv.out - 1]

\* The receiver goroutine writes err (in2, err = Recv()) while the pump
\* writes and reads it (err = HandleMessage(in); if err != nil).  With a
\* receiver outstanding, the nil it stores for a frame can replace the error
\* the pump just stored.
LostChoices ==
    IF rcv.pc = "recv" /\ nframes < env.frames THEN BOOLEAN ELSE {FALSE}

\* The pump after HandleMessage(m) returned h; send is nsInfo.sendToCC,
\* inbound tells that m came from msgAvail (recv = true), lost that the
\* error of HandleMessage was overwritten by the receiver.
AfterHandle(h, m, send, inbound, lost) ==
    LET r == IF inbound THEN RcvTaken
             ELSE IF lost THEN [rcv EXCEPT !.pc = "ret", !.in = Frame]
             ELSE rcv
        ret == IF h.ret = "err" THEN "handle" ELSE "nil"
    IN
    /\ fsm' = h.fsm
    /\ isTransaction' = h.isTransaction
    /\ ctxs' = h.ctxs
    /\ iters' = h.iters
    /\ sent' = h.sent
    /\ readyNotify' = h.readyNotify
    /\ IF h.ret = "err" /\ ~lost
       THEN /\ PumpReturn(h.registry, "handle", m.type, m)
            /\ err' = "handle"
            /\ rcv' = r
            /\ UNCHANGED <<mutex, sending>>
       ELSE /\ registry' = h.registry
            /\ IF h.blocked
               THEN /\ pump' = [PumpAt("notify", m.type) EXCEPT !.msg = m, !.send = send,
                                    !.dmsg = h.dmsg, !.recv = inbound,
                                    !.ret = ret]
                    /\ mutex' = "pump"
                    /\ err' = err
                    /\ rcv' = r
                    /\ UNCHANGED sending
               ELSE IF send
               THEN /\ pump' = [PumpAt("fwd", m.type) EXCEPT !.msg = m, !.recv = inbound,
                                    !.ret = ret]
                    /\ mutex' = "pump"
                    /\ sending' = sending + 1
                    /\ err' = "nil"
                    /\ rcv' = r
               ELSE /\ LoopTop(inbound, r, m.type, ret)
                    /\ UNCHANGED <<mutex, sending>>

\* the requests of the worker that are not answered yet
Outstanding ==
    Cardinality({t \in DOMAIN tasks : tasks[t].pc \notin {"done", "dropped"}})

\* case in = <-msgAvail: with a frame, then HandleMessage(in)
PumpInbound ==
    /\ ~crashed
    /\ pump.pc = "select"
    /\ mutex = "free"
    /\ Outstanding < env.window
    /\ \/ rcv.pc = "recv" /\ nframes < env.frames
       \/ rcv.pc = "ret" /\ rcv.in = Frame
    /\ nframes' = nframes + 1
    /\ \E m \in InFrames :
       \E regOk \in (IF m.type = "REGISTER" /\ m.ok /\ fsm = createdstate
                      THEN Outcomes("register") ELSE {TRUE}) :
       \E sok \in SendOutcomes(m) :
          \E h \in {HandleMessage(m, regOk, sok)} :
             /\ AfterHandle(h, m, FALSE, TRUE, FALSE)
             /\ tasks' = h.tasks
    /\ UNCHANGED <<txCtxs, uuidMap, calls, crashed, env,
                   deployTXSecContext>>

\* case in = <-msgAvail: with the end of the stream: processStream returns
\* err, or the nil-message error when err is nil
PumpClosed ==
    /\ ~crashed
    /\ pump.pc = "select"
    /\ mutex = "free"
    /\ rcv.pc = "ret"
    /\ rcv.in = NoMsg
    /\ PumpReturn(registry, IF err # "nil" THEN err ELSE "nilmsg", pump.ev,
                  NoMsg)
    /\ rcv' = RcvTaken
    /\ err' = IF err # "nil" THEN err ELSE "nilmsg"
    /\ UNCHANGED <<fsm, txCtxs, ctxs, uuidMap, isTransaction, iters, mutex,
                   tasks, calls, sent, sending, crashed, readyNotify, nframes,
                   env, deployTXSecContext>>

\* case nsInfo = <-handler.nextState: with a background goroutine t blocked
\* in triggerNextState(reply, true), then HandleMessage
PumpNextTask(t) ==
    /\ ~crashed
    /\ pump.pc = "select"
    /\ mutex = "free"
    /\ tasks[t].pc = "trigger"
    /\ LET m == tasks[t].reply IN
       \E sok \in SendOutcomes(m) :
          \E h \in {HandleMessage(m, TRUE, sok)} :
          \E lost \in (IF h.ret = "err" THEN LostChoices ELSE {FALSE}) :
             /\ AfterHandle(h, m, TRUE, FALSE, lost)
             /\ tasks' = [h.tasks EXCEPT ![t].pc = "done"]
    /\ UNCHANGED <<txCtxs, uuidMap, calls, crashed, nframes,
                   env, deployTXSecContext>>

\* case nsInfo = <-handler.nextState: with a host call c blocked in
\* triggerNextState(ccMsg, send), then HandleMessage
PumpNextCall(c) ==
    /\ ~crashed
    /\ pump.pc = "select"
    /\ mutex = "free"
    /\ calls[c].pc = "trigger"
    /\ LET m == calls[c].msg IN
       \E sok \in SendOutcomes(m) :
          \E h \in {HandleMessage(m, TRUE, sok)} :
          \E lost \in (IF h.ret = "err" THEN LostChoices ELSE {FALSE}) :
             /\ AfterHandle(h, m, calls[c].send, FALSE, lost)
             /\ tasks' = h.tasks
    /\ calls' = [calls EXCEPT ![c].pc = "wait"]
    /\ UNCHANGED <<txCtxs, uuidMap, crashed, nframes,
                   env, deployTXSecContext>>

\* the forward of the nextState message returns: err = serialSend(in);
\* sok: Send returned no error
PumpForward(sok) ==
    /\ ~crashed
    /\ pump.pc = "fwd"
    /\ mutex' = "free"
    /\ sending' = sending - 1
    /\ sent' = IF sok THEN Append(sent, pump.msg) ELSE sent
    /\ \E lost \in (IF sok THEN {FALSE} ELSE LostChoices) :
          IF sok \/ lost
          THEN /\ LoopTop(pump.recv,
                          IF lost THEN [rcv EXCEPT !.pc = "ret", !.in = Frame]
                          ELSE rcv, pump.ev,
                          IF sok THEN "nil" ELSE "send")
               /\ UNCHANGED registry
          ELSE /\ PumpReturn(registry, "send", pump.ev, pump.msg)
               /\ err' = "send"
               /\ UNCHANGED rcv
    /\ UNCHANGED <<fsm, txCtxs, ctxs, uuidMap, isTransaction, iters, tasks,
                   calls, crashed, readyNotify, nframes,
                   env, deployTXSecContext>>

\* notify was blocked in tctx.responseNotifier <- msg with the mutex held;
\* the caller took the frame that filled the channel and notify goes on:
\* it closes the iterators, and the callback and HandleMessage return.
PumpNotified ==
    /\ ~crashed
    /\ pump.pc = "notify"
    /\ LET c == txCtxs[pump.dmsg.uuid] IN
       /\ Len(ctxs[c].chan) < ChanCap
       /\ ctxs' = [ctxs EXCEPT ![c].chan = Append(@, pump.dmsg),
                               ![c].delivered = Min(@ + 1, 3)]
       /\ iters' = CloseAll(iters, ctxs, c)
    /\ registry' = IF fsm = endstate THEN deregister(registry) ELSE registry
    /\ IF pump.send
       THEN /\ pump' = [PumpAt("fwd", pump.ev) EXCEPT !.msg = pump.msg,
                                                      !.recv = pump.recv,
                                                      !.ret = pump.ret]
            /\ sending' = sending + 1
            /\ err' = "nil"
            /\ UNCHANGED <<mutex, rcv>>
       ELSE /\ LoopTop(pump.recv, rcv, pump.ev, pump.ret)
            /\ mutex' = "free"
            /\ UNCHANGED sending
    /\ UNCHANGED <<fsm, txCtxs, uuidMap, isTransaction, tasks, calls, sent,
                   crashed, readyNotify, nframes, env,
                   deployTXSecContext>>

\* ------------------------------------------------ background goroutines
\* createUUIDEntry without the test for an entry already there
createUUIDEntryNoCheck(map, u) == TablesExist

\* handler.createUUIDEntry(uuid): TRUE when the entry was made
createUUIDEntry(map, u) == TablesExist /\ u \notin map

\* the goroutines of the same uuid that started and have not finished
Unfinished(t) ==
    {j \in DOMAIN tasks : /\ j # t
                          /\ tasks[j].msg.uuid = tasks[t].msg.uuid
                          /\ tasks[j].pc \notin {"start", "done", "dropped"}}

TaskVarsUnchanged ==
    UNCHANGED <<fsm, registry, txCtxs, pump, rcv, err, calls,
                readyNotify, nframes, env, deployTXSecContext>>

\* The first statements of the goroutine: createUUIDEntry and the early
\* return of a duplicate (handleGetState, handleRangeQueryState[Next|Close],
\* handleQueryChaincode)
ReadStart(t) ==
    LET u == tasks[t].msg.uuid IN
    /\ ~crashed
    /\ mutex = "free"
    /\ tasks[t].pc = "start"
    /\ tasks[t].msg.type \notin WriteTypes
    /\ IF createUUIDEntry(uuidMap, u)
       THEN /\ uuidMap' = uuidMap \cup {u}
            /\ tasks' = [tasks EXCEPT ![t].pc = "work", ![t].guard = TRUE,
                                      ![t].peers = Unfinished(t),
                                      ![t].held = u \in uuidMap]
       ELSE /\ uuidMap' = uuidMap
            /\ tasks' = [tasks EXCEPT ![t].pc = "dropped",
                                      ![t].peers = Unfinished(t),
                                      ![t].held = u \in uuidMap]
    /\ TaskVarsUnchanged
    /\ UNCHANGED <<ctxs, isTransaction, iters, mutex, sent, sending, crashed>>

\* The first statements of the goroutine of enterBusyState: the
\* query-context check, then createUUIDEntry
BusyStart(t) ==
    LET u == tasks[t].msg.uuid IN
    /\ ~crashed
    /\ mutex = "free"
    /\ tasks[t].pc = "start"
    /\ tasks[t].msg.type \in WriteTypes
    /\ IF ~getIsTransaction(isTransaction, u)
       THEN /\ uuidMap' = uuidMap
            /\ tasks' = [tasks EXCEPT ![t].pc = "trigger",
                                      ![t].reply = Msg("ERROR", u)]
       ELSE IF createUUIDEntry(uuidMap, u)
       THEN /\ uuidMap' = uuidMap \cup {u}
            /\ tasks' = [tasks EXCEPT ![t].pc = "work", ![t].guard = TRUE,
                                      ![t].peers = Unfinished(t),
                                      ![t].held = u \in uuidMap]
       ELSE /\ uuidMap' = uuidMap
            /\ tasks' = [tasks EXCEPT ![t].pc = "dropped",
                                      ![t].peers = Unfinished(t),
                                      ![t].held = u \in uuidMap]
    /\ TaskVarsUnchanged
    /\ UNCHANGED <<ctxs, isTransaction, iters, mutex, sent, sending, crashed>>

\* The goroutine sets its reply and returns: the deferred function runs
\* deleteUUIDEntry, and then serialSend (reads) or triggerNextState (writes).
Finish(t, tk, reply) ==
    [tk EXCEPT !.reply = reply, !.guard = FALSE,
               !.pc = IF tk.msg.type \in WriteTypes THEN "trigger" ELSE "send"]

\* the record of the ledger or support-plane call the goroutine makes now
Called(tk, op, committed) ==
    [tk EXCEPT !.op = op, !.opIsT = getIsTransaction(isTransaction, tk.msg.uuid),
               !.opFsm = fsm, !.opCtx = txCtxs[tk.msg.uuid],
               !.committed = committed]

\* handleGetState after the guard: GetLedger, GetState, decrypt.
\* lok: the ledger returns no error.
GetStateWork(t, lok) ==
    LET tk == tasks[t]
        u  == tk.msg.uuid
        rc == ~getIsTransaction(isTransaction, u)
    IN
    /\ ~crashed
    /\ mutex = "free"
    /\ tk.pc = "work"
    /\ tk.msg.type = "GET_STATE"
    /\ tasks' = [tasks EXCEPT ![t] =
          Finish(t, Called(tk, "GetState", rc),
                 IF lok /\ CryptoOk(ctxs, txCtxs[u])
                 THEN Msg("RESPONSE", u) ELSE Msg("ERROR", u))]
    /\ uuidMap' = uuidMap \ {u}
    /\ TaskVarsUnchanged
    /\ UNCHANGED <<ctxs, isTransaction, iters, mutex, sent, sending, crashed>>

\* rangeIter.Next(): cur is the index of the current entry of n entries
IterNext(n, cur) == cur < n

\* The scan loop with the test i <= maxRangeQueryStateLimit
RECURSIVE ScanLoopInclusive(_, _, _, _)
ScanLoopInclusive(n, cur, hasNext, i) ==
    IF hasNext /\ i <= maxRangeQueryStateLimit
    THEN LET more == IterNext(n, cur) IN
         ScanLoopInclusive(n, IF more THEN cur + 1 ELSE cur, more, i + 1)
    ELSE [cur |-> cur, hasNext |-> hasNext, n |-> i]

\* for ; hasNext && i < maxRangeQueryStateLimit; i++ {
\*     GetKeyValue(); decrypt; append; hasNext = rangeIter.Next() }
\* The result: the cursor, hasNext and the number of pairs appended.
RECURSIVE ScanLoop(_, _, _, _)
ScanLoop(n, cur, hasNext, i) ==
    IF hasNext /\ i < maxRangeQueryStateLimit
    THEN LET more == IterNext(n, cur) IN
         ScanLoop(n, IF more THEN cur + 1 ELSE cur, more, i + 1)
    ELSE [cur |-> cur, hasNext |-> hasNext, n |-> i]

\* The frame with HasMore left at its zero value
ScanFrameNoMore(u, id, first, r) ==
    [Msg("RESPONSE", u) EXCEPT !.id = id, !.n = r.n,
                               !.first = IF r.n = 0 THEN 0 ELSE first]

\* The frame built from a scan that started at entry first
\* (pb.RangeQueryStateResponse{KeysAndValues, HasMore, ID})
ScanFrame(u, id, first, r) ==
    [Msg("RESPONSE", u) EXCEPT !.id = id, !.n = r.n, !.more = r.hasNext,
                               !.first = IF r.n = 0 THEN 0 ELSE first]

\* The scan loop of handleRangeQueryState / handleRangeQueryStateNext on
\* iterator id of context c, with the cursor cur and hasNext as they are
\* before the loop, and the statements after the loop: Close and
\* deleteRangeQueryIterator when !hasNext, the frame, the deferred
\* deleteUUIDEntry.  A failed decrypt reaches unmarshalErr.Error() with
\* unmarshalErr == nil: the goroutine panics.  An iterator used after its
\* Close() may fault in the ledger (fault) or go on.
ScanAndReply(t, c, id, cur, hasNext, fault) ==
    LET tk == tasks[t]
        u  == tk.msg.uuid
        it == iters[id]
    IN
    IF \/ (hasNext /\ ~CryptoOk(ctxs, txCtxs[u]))
       \/ (it.closes > 0 /\ fault)
    THEN /\ crashed' = TRUE
         /\ UNCHANGED <<tasks, uuidMap, iters, ctxs>>
    ELSE \E r \in {ScanLoop(it.n, cur, hasNext, 0)} :
         /\ crashed' = crashed
         /\ iters' = [iters EXCEPT ![id].pos = r.cur,
                         ![id].closes = IF r.hasNext THEN @ ELSE Min(@ + 1, 3)]
         /\ ctxs' = IF r.hasNext THEN ctxs
                    ELSE [ctxs EXCEPT ![c].iters = @ \ {id}]
         /\ tasks' = [tasks EXCEPT ![t] =
               Finish(t, [tk EXCEPT !.it = id, !.ctx = c],
                      ScanFrame(u, id, cur, r))]
         /\ uuidMap' = uuidMap \ {u}

\* handleRangeQueryState after the guard, up to putRangeQueryIterator:
\* Unmarshal, GetLedger, GetStateRangeScanIterator, GenerateUUID,
\* getTxContext, putRangeQueryIterator (which panics on a nil txContext)
RangeQueryOpen(t, lok) ==
    LET tk == tasks[t]
        u  == tk.msg.uuid
        c  == txCtxs[u]
        id == Len(iters) + 1
    IN
    /\ ~crashed
    /\ mutex = "free"
    /\ tk.pc = "work"
    /\ tk.msg.type = "RANGE_QUERY_STATE"
    /\ IF ~tk.msg.ok
       THEN /\ tasks' = [tasks EXCEPT ![t] = Finish(t, tk, Msg("ERROR", u))]
            /\ uuidMap' = uuidMap \ {u}
            /\ UNCHANGED <<iters, ctxs, crashed>>
       ELSE IF ~lok
       THEN /\ tasks' = [tasks EXCEPT ![t] =
                  Finish(t, Called(tk, "RangeScan", ~getIsTransaction(isTransaction, u)),
                         Msg("ERROR", u))]
            /\ uuidMap' = uuidMap \ {u}
            /\ UNCHANGED <<iters, ctxs, crashed>>
       ELSE IF c = 0
       THEN /\ crashed' = TRUE
            /\ tasks' = [tasks EXCEPT ![t] =
                  Called(tk, "RangeScan", ~getIsTransaction(isTransaction, u))]
            /\ UNCHANGED <<iters, ctxs, uuidMap>>
       ELSE /\ iters' = Append(iters, NewIter(tk.msg.n, c))
            /\ ctxs' = [ctxs EXCEPT ![c].iters = @ \cup {id}]
            /\ tasks' = [tasks EXCEPT ![t] =
                  [Called(tk, "RangeScan", ~getIsTransaction(isTransaction, u))
                     EXCEPT !.pc = "drain", !.it = id, !.ctx = c]]
            /\ UNCHANGED <<uuidMap, crashed>>
    /\ TaskVarsUnchanged
    /\ UNCHANGED <<isTransaction, mutex, sent, sending>>

\* handleRangeQueryState from hasNext = rangeIter.Next() on
RangeQueryDrain(t, fault) ==
    LET tk == tasks[t]
        it == iters[tk.it]
        hn == IterNext(it.n, it.pos)
    IN
    /\ ~crashed
    /\ mutex = "free"
    /\ tk.pc = "drain"
    /\ ScanAndReply(t, tk.ctx, tk.it, IF hn THEN it.pos + 1 ELSE it.pos, hn, fault)
    /\ TaskVarsUnchanged
    /\ UNCHANGED <<isTransaction, mutex, sent, sending>>

\* handleRangeQueryStateNext after the guard: Unmarshal, getTxContext,
\* getRangeQueryIterator (which panics on a nil txContext), the scan loop
RangeQueryNext(t, fault) ==
    LET tk == tasks[t]
        u  == tk.msg.uuid
        c  == txCtxs[u]
    IN
    /\ ~crashed
    /\ mutex = "free"
    /\ tk.pc = "work"
    /\ tk.msg.type = "RANGE_QUERY_STATE_NEXT"
    /\ IF ~tk.msg.ok
       THEN /\ tasks' = [tasks EXCEPT ![t] = Finish(t, tk, Msg("ERROR", u))]
            /\ uuidMap' = uuidMap \ {u}
            /\ UNCHANGED <<iters, ctxs, crashed>>
       ELSE IF c = 0
       THEN /\ crashed' = TRUE
            /\ UNCHANGED <<tasks, iters, ctxs, uuidMap>>
       ELSE IF tk.msg.id \notin ctxs[c].iters
       THEN /\ tasks' = [tasks EXCEPT ![t] =
                  Finish(t, [tk EXCEPT !.ctx = c], Msg("ERROR", u))]
            /\ uuidMap' = uuidMap \ {u}
            /\ UNCHANGED <<iters, ctxs, crashed>>
       ELSE ScanAndReply(t, c, tk.msg.id, iters[tk.msg.id].pos, TRUE, fault)
    /\ TaskVarsUnchanged
    /\ UNCHANGED <<isTransaction, mutex, sent, sending>>

\* a reply to RANGE_QUERY_STATE_CLOSE that does not carry the id
CloseFrameNoId(u, id) == Msg("RESPONSE", u)

\* The reply of handleRangeQueryStateClose:
\* RangeQueryStateResponse{HasMore: false, ID: rangeQueryStateClose.ID}
CloseFrame(u, id) == [Msg("RESPONSE", u) EXCEPT !.id = id, !.more = FALSE]

\* handleRangeQueryStateClose after the guard
RangeQueryClose(t) ==
    LET tk == tasks[t]
        u  == tk.msg.uuid
        c  == txCtxs[u]
        id == tk.msg.id
    IN
    /\ ~crashed
    /\ mutex = "free"
    /\ tk.pc = "work"
    /\ tk.msg.type = "RANGE_QUERY_STATE_CLOSE"
    /\ IF ~tk.msg.ok
       THEN /\ tasks' = [tasks EXCEPT ![t] = Finish(t, tk, Msg("ERROR", u))]
            /\ uuidMap' = uuidMap \ {u}
            /\ UNCHANGED <<iters, ctxs, crashed>>
       ELSE IF c = 0
       THEN /\ crashed' = TRUE
            /\ UNCHANGED <<tasks, iters, ctxs, uuidMap>>
       ELSE /\ tasks' = [tasks EXCEPT ![t] =
                  Finish(t, [tk EXCEPT !.ctx = c], CloseFrame(u, id))]
            /\ uuidMap' = uuidMap \ {u}
            /\ crashed' = crashed
            /\ IF id \in ctxs[c].iters
               THEN /\ iters' = [iters EXCEPT ![id].closes = Min(@ + 1, 3)]
                    /\ ctxs' = [ctxs EXCEPT ![c].iters = @ \ {id}]
               ELSE UNCHANGED <<iters, ctxs>>
    /\ TaskVarsUnchanged
    /\ UNCHANGED <<isTransaction, mutex, sent, sending>>

\* handleQueryChaincode after the guard, up to the call of Execute:
\* Unmarshal, NewChaincodeExecute, LaunchChaincode.  lok: the launch
\* returns no error.
QueryLaunch(t, lok) ==
    LET tk == tasks[t]
        u  == tk.msg.uuid
    IN
    /\ ~crashed
    /\ mutex = "free"
    /\ tk.pc = "work"
    /\ tk.msg.type = "INVOKE_QUERY"
    /\ IF ~tk.msg.ok
       THEN /\ tasks' = [tasks EXCEPT ![t] = Finish(t, tk, Msg("ERROR", u))]
            /\ uuidMap' = uuidMap \ {u}
       ELSE IF ~lok
       THEN /\ tasks' = [tasks EXCEPT ![t] =
                  Finish(t, Called(tk, "Launch", FALSE), Msg("ERROR", u))]
            /\ uuidMap' = uuidMap \ {u}
       ELSE /\ tasks' = [tasks EXCEPT ![t] =
                  [Called(tk, "ExecuteQuery", FALSE) EXCEPT !.pc = "exec"]]
            /\ uuidMap' = uuidMap
    /\ TaskVarsUnchanged
    /\ UNCHANGED <<ctxs, isTransaction, iters, mutex, sent, sending, crashed>>

\* chaincodeSupport.Execute returns to handleQueryChaincode.
\* eok: it returns no error.
QueryReturn(t, eok) ==
    LET tk == tasks[t]
        u  == tk.msg.uuid
    IN
    /\ ~crashed
    /\ mutex = "free"
    /\ tk.pc = "exec"
    /\ tk.msg.type = "INVOKE_QUERY"
    /\ tasks' = [tasks EXCEPT ![t] =
          Finish(t, tk, IF eok THEN Msg("RESPONSE", u) ELSE Msg("ERROR", u))]
    /\ uuidMap' = uuidMap \ {u}
    /\ TaskVarsUnchanged
    /\ UNCHANGED <<ctxs, isTransaction, iters, mutex, sent, sending, crashed>>

\* enterBusyState after the guard for PUT_STATE and DEL_STATE: GetLedger,
\* Unmarshal, encrypt, SetState / DeleteState.  lok: the ledger returns no
\* error.
BusyWrite(t, lok) ==
    LET tk == tasks[t]
        u  == tk.msg.uuid
        put == tk.msg.type = "PUT_STATE"
    IN
    /\ ~crashed
    /\ mutex = "free"
    /\ tk.pc = "work"
    /\ tk.msg.type \in {"PUT_STATE", "DEL_STATE"}
    /\ tasks' = [tasks EXCEPT ![t] =
          IF put /\ (~tk.msg.ok \/ ~CryptoOk(ctxs, txCtxs[u]))
          THEN Finish(t, tk, Msg("ERROR", u))
          ELSE Finish(t, Called(tk, IF put THEN "SetState" ELSE "DeleteState", FALSE),
                      IF lok THEN Msg("RESPONSE", u) ELSE Msg("ERROR", u))]
    /\ uuidMap' = uuidMap \ {u}
    /\ TaskVarsUnchanged
    /\ UNCHANGED <<ctxs, isTransaction, iters, mutex, sent, sending, crashed>>

\* enterBusyState after the guard for INVOKE_CHAINCODE, up to the call of
\* Execute: GetLedger, Unmarshal, NewChaincodeExecute, LaunchChaincode
BusyLaunch(t, lok) ==
    LET tk == tasks[t]
        u  == tk.msg.uuid
    IN
    /\ ~crashed
    /\ mutex = "free"
    /\ tk.pc = "work"
    /\ tk.msg.type = "INVOKE_CHAINCODE"
    /\ IF ~tk.msg.ok
       THEN /\ tasks' = [tasks EXCEPT ![t] = Finish(t, tk, Msg("ERROR", u))]
            /\ uuidMap' = uuidMap \ {u}
       ELSE IF ~lok
       THEN /\ tasks' = [tasks EXCEPT ![t] =
                  Finish(t, [Called(tk, "Launch", FALSE) EXCEPT !.failed = TRUE],
                         Msg("ERROR", u))]
            /\ uuidMap' = uuidMap \ {u}
       ELSE /\ tasks' = [tasks EXCEPT ![t] =
                  [Called(tk, "Execute", FALSE) EXCEPT !.pc = "exec"]]
            /\ uuidMap' = uuidMap
    /\ TaskVarsUnchanged
    /\ UNCHANGED <<ctxs, isTransaction, iters, mutex, sent, sending, crashed>>

\* chaincodeSupport.Execute returns to enterBusyState: err = execErr;
\* res = response.Payload.  out is "ok", "err" (an error with a response)
\* or "nil" (an error with a nil response: response.Payload panics).
BusyReturn(t, out) ==
    LET tk == tasks[t]
        u  == tk.msg.uuid
    IN
    /\ ~crashed
    /\ mutex = "free"
    /\ tk.pc = "exec"
    /\ tk.msg.type = "INVOKE_CHAINCODE"
    /\ IF out = "nil"
       THEN /\ crashed' = TRUE
            /\ UNCHANGED <<tasks, uuidMap>>
       ELSE /\ crashed' = crashed
            /\ tasks' = [tasks EXCEPT ![t] =
                  Finish(t, [tk EXCEPT !.failed = out = "err"],
                         IF out = "ok" THEN Msg("RESPONSE", u)
                         ELSE Msg("ERROR", u))]
            /\ uuidMap' = uuidMap \ {u}
    /\ TaskVarsUnchanged
    /\ UNCHANGED <<ctxs, isTransaction, iters, mutex, sent, sending>>

\* serialSend without handler.Lock()
serialSendNoLock(mx) == TRUE

\* handler.serialSend: handler.Lock() lets the caller in when the mutex mx
\* is free
serialSendLock(mx) == mx = "free"

\* serialSend(serialSendMsg) of the deferred function: Lock, and Send begins
TaskSend(t) ==
    /\ ~crashed
    /\ serialSendLock(mutex)
    /\ tasks[t].pc = "send"
    /\ mutex' = "task"
    /\ sending' = sending + 1
    /\ tasks' = [tasks EXCEPT ![t].pc = "sending"]
    /\ TaskVarsUnchanged
    /\ UNCHANGED <<ctxs, isTransaction, iters, uuidMap, sent, crashed>>

\* Send returns, Unlock; sok: Send returned no error
TaskSent(t, sok) ==
    /\ ~crashed
    /\ tasks[t].pc = "sending"
    /\ mutex' = "free"
    /\ sending' = sending - 1
    /\ sent' = IF sok THEN Append(sent, tasks[t].reply) ELSE sent
    /\ tasks' = [tasks EXCEPT ![t].pc = "done", ![t].replied = sok]
    /\ TaskVarsUnchanged
    /\ UNCHANGED <<ctxs, isTransaction, iters, uuidMap, crashed>>

\* ------------------------------------------------------------ host calls
\* A call of the host: msg and send are the arguments of triggerNextState
\* (or the frame of the direct serialSend), ctx the context it created,
\* got the frame it took from the response channel.
NewCall(kind, m, send, c, pc) ==
    [kind |-> kind, msg |-> m, send |-> send, ctx |-> c, pc |-> pc,
     got |-> NoMsg]

\* The transaction types the host passes as tx; a nil tx is told apart only
\* when a security helper reads it.
SecOf(kind) == CASE kind = "init"  -> "NEW"
                 [] kind = "query" -> "QUERY"
                 [] OTHER          -> "EXECUTE"

SecChoices(kind) ==
    IF secHelper /\ "sec" \in env.fails THEN {SecOf(kind), "nil"}
    ELSE {SecOf(kind)}

CallVarsUnchanged ==
    UNCHANGED <<fsm, registry, uuidMap, iters, pump, rcv, err, tasks, crashed, readyNotify, nframes, env>>

\* createTxContext without the test for an entry already there
createTxContextOkAlways(tx, u) == TablesExist

\* handler.createTxContext(uuid, tx): TRUE when it returns no error
createTxContextOk(tx, u) == TablesExist /\ tx[u] = 0

\* handler.initOrReady(uuid, f, initArgs, tx, depTx) up to
\* triggerNextState.  init: f or initArgs are given; dep: depTx is given;
\* sok: initializeSecContext returns no error.
InitOrReady(u, init, sec, dep, sok) ==
    LET c == Len(ctxs) + 1
        m == Msg(IF init THEN "INIT" ELSE "READY", u)
        k == IF init THEN "init" ELSE "ready"
    IN
    /\ ~crashed
    /\ mutex = "free"
    /\ registry = "registered"
    /\ Len(calls) < env.ncalls
    /\ IF ~createTxContextOk(txCtxs, u)
       THEN /\ calls' = Append(calls, NewCall(k, m, ~init, 0, "failed"))
            /\ UNCHANGED <<txCtxs, ctxs, deployTXSecContext>>
       ELSE /\ ctxs' = Append(ctxs, NewCtx(u, sec))
            /\ deployTXSecContext' = IF dep THEN "depTx" ELSE "clone"
            /\ IF sok
               THEN /\ txCtxs' = [txCtxs EXCEPT ![u] = c]
                    /\ calls' = Append(calls, NewCall(k, m, ~init, c, "trigger"))
               ELSE /\ txCtxs' = txCtxs
                    /\ calls' = Append(calls, NewCall(k, m, ~init, c, "failed"))
    /\ CallVarsUnchanged
    /\ UNCHANGED <<isTransaction, mutex, sent, sending>>

\* handler.sendExecuteMessage(msg, tx) up to triggerNextState (TRANSACTION)
\* or serialSend (any other type)
SendExecuteMessage(u, typ, sec) ==
    LET c == Len(ctxs) + 1
        m == Msg(typ, u)
        k == IF typ = "QUERY" THEN "query" ELSE "tx"
    IN
    /\ ~crashed
    /\ mutex = "free"
    /\ registry = "registered"
    /\ Len(calls) < env.ncalls
    /\ IF ~createTxContextOk(txCtxs, u)
       THEN /\ calls' = Append(calls, NewCall(k, m, TRUE, 0, "failed"))
            /\ UNCHANGED <<txCtxs, ctxs, isTransaction>>
       ELSE /\ ctxs' = Append(ctxs, NewCtx(u, sec))
            /\ txCtxs' = [txCtxs EXCEPT ![u] = c]
            /\ isTransaction' = [isTransaction EXCEPT ![u] =
                                   IF typ = "QUERY" THEN "false" ELSE "true"]
            /\ calls' = Append(calls, NewCall(k, m, TRUE, c,
                                 IF typ = "TRANSACTION" THEN "trigger" ELSE "send"))
    /\ CallVarsUnchanged
    /\ UNCHANGED <<mutex, sent, sending, deployTXSecContext>>

\* serialSend(msg) of sendExecuteMessage: Lock, and Send begins
CallSend(c) ==
    /\ ~crashed
    /\ serialSendLock(mutex)
    /\ calls[c].pc = "send"
    /\ mutex' = "call"
    /\ sending' = sending + 1
    /\ calls' = [calls EXCEPT ![c].pc = "sending"]
    /\ CallVarsUnchanged
    /\ UNCHANGED <<txCtxs, ctxs, isTransaction, sent, deployTXSecContext>>

\* Send returns, Unlock; on an error deleteTxContext and the call fails
CallSent(c, sok) ==
    /\ ~crashed
    /\ calls[c].pc = "sending"
    /\ mutex' = "free"
    /\ sending' = sending - 1
    /\ IF sok
       THEN /\ txCtxs' = txCtxs
            /\ calls' = [calls EXCEPT ![c].pc = "wait"]
            /\ sent' = Append(sent, calls[c].msg)
       ELSE /\ txCtxs' = [txCtxs EXCEPT ![calls[c].msg.uuid] = 0]
            /\ calls' = [calls EXCEPT ![c].pc = "failed"]
            /\ sent' = sent
    /\ CallVarsUnchanged
    /\ UNCHANGED <<ctxs, isTransaction, deployTXSecContext>>

\* The caller takes the frame from the response channel it was given
CallerReceive(c) ==
    LET x == calls[c].ctx IN
    /\ ~crashed
    /\ calls[c].pc = "wait"
    /\ Len(ctxs[x].chan) > 0
    /\ calls' = [calls EXCEPT ![c].pc = "got", ![c].got = Head(ctxs[x].chan)]
    /\ ctxs' = [ctxs EXCEPT ![x].chan = Tail(@)]
    /\ CallVarsUnchanged
    /\ UNCHANGED <<txCtxs, isTransaction, mutex, sent, sending,
                   deployTXSecContext>>

\* The caller stops waiting (its timeout expires)
CallerTimeout(c) ==
    /\ ~crashed
    /\ calls[c].pc = "wait"
    /\ calls' = [calls EXCEPT ![c].pc = "gaveup"]
    /\ CallVarsUnchanged
    /\ UNCHANGED <<txCtxs, ctxs, isTransaction, mutex, sent, sending,
                   deployTXSecContext>>

\* handler.deleteTxContext(uuid), called by the caller when it has the
\* frame or has stopped waiting
DeleteTxContext(c) ==
    /\ ~crashed
    /\ mutex = "free"
    /\ calls[c].pc \in {"got", "gaveup"}
    /\ txCtxs' = [txCtxs EXCEPT ![calls[c].msg.uuid] = 0]
    /\ calls' = [calls EXCEPT ![c].pc = "done"]
    /\ CallVarsUnchanged
    /\ UNCHANGED <<ctxs, isTransaction, mutex, sent, sending,
                   deployTXSecContext>>

\* ------------------------------------------------------------------ Next
\* the stream ends
Receiver == \E e \in env.ends : RecvEnd(e)

\* processStream
Pump ==
    \/ PumpInbound
    \/ \E c \in DOMAIN calls : PumpNextCall(c)
    \/ \E sok \in Outcomes("send") : PumpForward(sok)

\* the first statements and the deferred serialSend of the goroutines of the
\* read requests
Replies ==
    \/ \E t \in DOMAIN tasks : ReadStart(t)
    \/ \E t \in DOMAIN tasks : TaskSend(t)
    \/ \E t \in DOMAIN tasks, sok \in Outcomes("send") : TaskSent(t, sok)

\* handleGetState
GetStates ==
    \E t \in DOMAIN tasks, lok \in Outcomes("ledger") : GetStateWork(t, lok)

\* handleQueryChaincode
Queries ==
    \/ \E t \in DOMAIN tasks, lok \in Outcomes("exec") : QueryLaunch(t, lok)
    \/ \E t \in DOMAIN tasks, eok \in Outcomes("exec") : QueryReturn(t, eok)

\* handleRangeQueryState, handleRangeQueryStateNext, handleRangeQueryStateClose
Scans ==
    \/ \E t \in DOMAIN tasks, lok \in Outcomes("ledger") : RangeQueryOpen(t, lok)
    \/ \E t \in DOMAIN tasks, ok \in Outcomes("iter") : RangeQueryDrain(t, ~ok)
    \/ \E t \in DOMAIN tasks, ok \in Outcomes("iter") : RangeQueryNext(t, ~ok)
    \/ \E t \in DOMAIN tasks : RangeQueryClose(t)

\* the outcomes of chaincodeSupport.Execute for enterBusyState
ExecOutcomes == IF "exec" \in env.fails THEN {"ok", "err", "nil"} ELSE {"ok"}

\* enterBusyState
Writes ==
    \/ \E t \in DOMAIN tasks : BusyStart(t)
    \/ \E t \in DOMAIN tasks, lok \in Outcomes("ledger") : BusyWrite(t, lok)
    \/ \E t \in DOMAIN tasks, lok \in Outcomes("exec") : BusyLaunch(t, lok)
    \/ \E t \in DOMAIN tasks, out \in ExecOutcomes : BusyReturn(t, out)
    \/ \E t \in DOMAIN tasks : PumpNextTask(t)

\* initOrReady
HostInit ==
    \E u \in FreshUUIDs, init \in BOOLEAN, dep \in env.deps,
       sok \in Outcomes("sec") :
       \E sec \in SecChoices(IF init THEN "init" ELSE "ready") :
          /\ (IF init THEN "init" ELSE "ready") \in env.calls
          /\ InitOrReady(u, init, sec, dep, sok)

\* sendExecuteMessage
HostExecute ==
    \/ \E u \in FreshUUIDs, typ \in {"TRANSACTION", "QUERY"} :
          \E sec \in SecChoices(IF typ = "QUERY" THEN "query" ELSE "tx") :
             /\ (IF typ = "QUERY" THEN "query" ELSE "tx") \in env.calls
             /\ SendExecuteMessage(u, typ, sec)
    \/ \E c \in DOMAIN calls : CallSend(c)
    \/ \E c \in DOMAIN calls, sok \in Outcomes("send") : CallSent(c, sok)

\* the caller of initOrReady / sendExecuteMessage
Callers ==
    \/ \E c \in DOMAIN calls : CallerReceive(c)
    \/ \E c \in DOMAIN calls : CallerTimeout(c)
    \/ \E c \in DOMAIN calls : DeleteTxContext(c)

\* the session: every frame type but the range scans, every host call, the
\* end of the stream
Next == Receiver \/ PumpClosed \/ Pump \/ PumpNotified \/ Replies \/ GetStates
        \/ Queries \/ Writes \/ HostInit \/ HostExecute \/ Callers

\* concurrent read requests on a ready session
NextGuard == Pump \/ Replies \/ GetStates \/ HostInit \/ Callers

\* range scans on a ready session
NextScan == Pump \/ PumpNotified \/ Replies \/ Scans \/ HostInit \/ Callers

\* the host calls and the terminal frames of the worker
NextHost == Pump \/ PumpNotified \/ HostInit \/ HostExecute \/ Callers

\* nested invocations on a session the host calls set up
NextNested == Pump \/ PumpNotified \/ Writes \/ HostInit \/ HostExecute
              \/ Callers

\* every request of the worker that carries a payload, on a deploy
NextGarbled == Pump \/ Replies \/ Queries \/ Scans \/ Writes \/ HostInit
               \/ Callers

\* the frames of a query and the nested queries of the worker
NextQuery == Pump \/ PumpNotified \/ Replies \/ Queries \/ HostInit
             \/ HostExecute \/ Callers

\* the host calls and the end of the stream
NextClose == Receiver \/ PumpClosed \/ Pump \/ PumpNotified \/ HostInit
             \/ HostExecute \/ Callers

\* the calls of initOrReady and their frames
NextDeploy == Pump \/ HostInit \/ Callers

\* the steps the handler takes on its own: its goroutines, and the pump
\* serving nextState and forwarding
Handling ==
    \/ Replies \/ GetStates \/ Writes
    \/ \E c \in DOMAIN calls : PumpNextCall(c)
    \/ \E sok \in Outcomes("send") : PumpForward(sok)

\* reads and writes on a deploy
NextLive == Pump \/ Replies \/ GetStates \/ Writes \/ HostInit \/ Callers

\* What is attached to the handler: the frame types the worker sends, the
\* uuids in use, the calls the host makes, how the stream can end, the
\* outcomes drawn for what can fail outside the handler, and whether a
\* security helper is configured.
Lifecycle == {"REGISTER", "INIT", "READY", "TRANSACTION", "COMPLETED",
              "ERROR", "RESPONSE", "QUERY"}

Session ==
    [types : {Lifecycle \cup {"PUT_STATE", "DEL_STATE", "INVOKE_CHAINCODE",
                              "INVOKE_QUERY", "GET_STATE", "QUERY_COMPLETED",
                              "QUERY_ERROR"}},
     uuids : {{"u1"}},
     calls : {{"init", "ready", "tx", "query"}},
     deps : {{FALSE}},
     ends : {{"EOF", "err", "nilmsg"}},
     sizes : {{}},
     ids : {{}},
     fails : {{"send"}},
     frames : {MaxFrames},
     window : {MaxFrames},
     ncalls : {MaxCalls},
     secHelper : {FALSE}]

Guarded ==
    [types : {{"REGISTER", "GET_STATE"}},
     uuids : {{"u1", "u2"}},
     calls : {{"ready"}},
     deps : {{FALSE}},
     ends : {{}},
     sizes : {{}},
     ids : {{}},
     fails : {{}},
     frames : {MaxRequests + 1},
     window : {MaxRequests},
     ncalls : {MaxCalls},
     secHelper : {FALSE}]

Scanning ==
    [types : {{"REGISTER", "RANGE_QUERY_STATE", "RANGE_QUERY_STATE_NEXT",
               "RANGE_QUERY_STATE_CLOSE", "QUERY_COMPLETED"}},
     uuids : {{"u1"}},
     calls : {{"ready"}},
     deps : {{FALSE}},
     ends : {{}},
     sizes : {RangeSizes},
     ids : {{1, 2}},
     fails : {{"iter"}},
     frames : {MaxRequests + 1},
     window : {1},
     ncalls : {MaxCalls},
     secHelper : {TRUE}]

Hosting ==
    [types : {{"REGISTER", "COMPLETED", "QUERY_COMPLETED", "ERROR"}},
     uuids : {{"u1"}},
     calls : {{"init", "ready", "tx", "query"}},
     deps : {{FALSE}},
     ends : {{}},
     sizes : {{}},
     ids : {{}},
     fails : {{"send"}},
     frames : {MaxFrames},
     window : {MaxFrames},
     ncalls : {MaxHostCalls},
     secHelper : {FALSE}]

Nesting ==
    [types : {{"REGISTER", "PUT_STATE", "INVOKE_CHAINCODE", "COMPLETED"}},
     uuids : {{"u1"}},
     calls : {{"init", "ready", "tx", "query"}},
     deps : {{FALSE}},
     ends : {{}},
     sizes : {{}},
     ids : {{}},
     fails : {{"send", "exec"}},
     frames : {MaxFrames},
     window : {MaxFrames},
     ncalls : {MaxHostCalls},
     secHelper : {FALSE}]

Refusing ==
    [types : {{"REGISTER", "PUT_STATE", "INVOKE_CHAINCODE", "ERROR",
               "RESPONSE"}},
     uuids : {{"u1", "u2"}},
     calls : {{"init", "ready", "tx", "query"}},
     deps : {{FALSE}},
     ends : {{}},
     sizes : {{}},
     ids : {{}},
     fails : {{"send", "register"}},
     frames : {MaxFrames},
     window : {MaxFrames},
     ncalls : {MaxHostCalls},
     secHelper : {FALSE}]

\* a deploy whose worker sends requests with payloads that do not unmarshal
Garbled ==
    [types : {{"REGISTER", "RANGE_QUERY_STATE", "RANGE_QUERY_STATE_NEXT",
               "RANGE_QUERY_STATE_CLOSE", "PUT_STATE", "INVOKE_CHAINCODE",
               "INVOKE_QUERY", "ERROR"}},
     uuids : {{"u1"}},
     calls : {{"init"}},
     deps : {{FALSE}},
     ends : {{}},
     sizes : {{K + 1}},
     ids : {{1}},
     fails : {{"payload"}},
     frames : {MaxFrames},
     window : {MaxFrames},
     ncalls : {MaxCalls},
     secHelper : {FALSE}]

\* queries on a ready session with a security helper; the host may pass a
\* nil transaction
Querying ==
    [types : {{"REGISTER", "QUERY_COMPLETED", "QUERY_ERROR", "INVOKE_QUERY"}},
     uuids : {{"u1"}},
     calls : {{"ready", "query"}},
     deps : {{FALSE}},
     ends : {{}},
     sizes : {{}},
     ids : {{}},
     fails : {{"sec"}},
     frames : {MaxFrames},
     window : {MaxFrames},
     ncalls : {MaxHostCalls},
     secHelper : {TRUE}]

\* the host calls on a stream whose Recv ends with an error, never with a
\* nil message
Closing ==
    [types : {{"REGISTER", "COMPLETED", "ERROR"}},
     uuids : {{"u1"}},
     calls : {{"init", "ready", "tx", "query"}},
     deps : {{FALSE}},
     ends : {{"EOF", "err"}},
     sizes : {{}},
     ids : {{}},
     fails : {{"send"}},
     frames : {MaxFrames},
     window : {MaxFrames},
     ncalls : {MaxHostCalls},
     secHelper : {FALSE}]

\* initOrReady called more than once on a handler, with or without depTx
Deploying ==
    [types : {{"REGISTER", "COMPLETED"}},
     uuids : {{"u1", "u2"}},
     calls : {{"init", "ready"}},
     deps : {BOOLEAN},
     ends : {{}},
     sizes : {{}},
     ids : {{}},
     fails : {{}},
     frames : {MaxFrames},
     window : {MaxFrames},
     ncalls : {MaxHostCalls},
     secHelper : {FALSE}]

\* reads and writes of one uuid on a deploy; every call outside the handler
\* returns without error
Mixing ==
    [types : {{"REGISTER", "GET_STATE", "PUT_STATE", "INVOKE_CHAINCODE",
               "COMPLETED"}},
     uuids : {{"u1"}},
     calls : {{"init"}},
     deps : {{FALSE}},
     ends : {{}},
     sizes : {{}},
     ids : {{}},
     fails : {{}},
     frames : {MaxFrames},
     window : {MaxFrames},
     ncalls : {MaxCalls},
     secHelper : {FALSE}]

\* transactions the host starts one after another on a ready session
Serial ==
    [types : {{"REGISTER", "COMPLETED"}},
     uuids : {{"u1", "u2"}},
     calls : {{"ready", "tx", "query"}},
     deps : {{FALSE}},
     ends : {{}},
     sizes : {{}},
     ids : {{}},
     fails : {{}},
     frames : {MaxFrames},
     window : {MaxFrames},
     ncalls : {MaxHostCalls + 1},
     secHelper : {FALSE}]

Init == InitWith(Session)
Spec == Init /\ [][Next]_vars

InitGuard == InitWith(Guarded)
SpecGuard == InitGuard /\ [][NextGuard]_vars

InitScan == InitWith(Scanning)
SpecScan == InitScan /\ [][NextScan]_vars

InitHost == InitWith(Hosting)
SpecHost == InitHost /\ [][NextHost]_vars

InitRefuse == InitWith(Refusing)
SpecRefuse == InitRefuse /\ [][NextNested]_vars

InitNested == InitWith(Nesting)
SpecNested == InitNested /\ [][NextNested]_vars

InitQuery == InitWith(Querying)
SpecQuery == InitQuery /\ [][NextQuery]_vars

InitClose == InitWith(Closing)
SpecClose == InitClose /\ [][NextClose]_vars

InitDeploy == InitWith(Deploying)
SpecDeploy == InitDeploy /\ [][NextDeploy]_vars

\* the goroutines go on and the calls they make return, and the pump takes
\* what is on nextState and ends its forward; nothing makes the worker send
\* a frame or the host make a call
InitLive == InitWith(Mixing)
SpecLive == InitLive /\ [][NextLive]_vars /\ WF_vars(Handling)

InitSerial == InitWith(Serial)
SpecSerial == InitSerial /\ [][NextHost]_vars

InitGarbled == InitWith(Garbled)
SpecGarbled == InitGarbled /\ [][NextGarbled]_vars

\* ---------------------------------------------------------------- claims

\* The table of the specification: the changes of state event ev can make.
TableOf(ev) ==
    CASE ev = "REGISTER"    -> {<<createdstate, establishedstate>>}
      [] ev = "INIT"        -> {<<establishedstate, initstate>>}
      [] ev = "READY"       -> {<<establishedstate, readystate>>}
      [] ev = "TRANSACTION" -> {<<readystate, transactionstate>>}
      [] ev \in {"PUT_STATE", "DEL_STATE", "INVOKE_CHAINCODE"} ->
            {<<transactionstate, busyxactstate>>, <<initstate, busyinitstate>>}
      [] ev = "RESPONSE"    -> {<<busyinitstate, initstate>>,
                                <<busyxactstate, transactionstate>>}
      [] ev = "ERROR"       -> {<<initstate, endstate>>,
                                <<busyinitstate, initstate>>,
                                <<transactionstate, readystate>>,
                                <<busyxactstate, transactionstate>>}
      [] ev = "COMPLETED"   -> {<<initstate, readystate>>,
                                <<transactionstate, readystate>>}
      [] OTHER -> {}

C2_WritesOnlyInTransaction ==
    \A t \in DOMAIN tasks :
        tasks[t].op \in {"SetState", "DeleteState", "Execute"} => tasks[t].opIsT

\* C3: no transaction context ever has a second frame put on its response
\* channel.
C3_OneFramePerContext ==
    \A c \in DOMAIN ctxs : ctxs[c].delivered <= 1

\* C4: at most one ChatStream.Send is in progress at any instant, and the
\* sender holds the handler mutex.
C4_OneSendInProgress ==
    /\ sending <= 1
    /\ sending = 1 => mutex # "free"

\* C4, reached: a Send is in progress while a goroutine waits in serialSend
\* with its reply.
C4_SenderWaits ==
    /\ sending = 1
    /\ \E t \in DOMAIN tasks : tasks[t].pc = "send"

\* the goroutines of uuid u between createUUIDEntry and deleteUUIDEntry
InFlight(u) == {t \in DOMAIN tasks : tasks[t].guard /\ tasks[t].msg.uuid = u}

\* C5: for every uuid at most one goroutine is between its successful
\* createUUIDEntry and its deleteUUIDEntry, uuidMap holds exactly the uuids
\* that are, and a goroutine that found its uuid in uuidMap made no ledger
\* or support call and built and sent no reply.
C5_OneInFlightPerUuid ==
    /\ \A u \in UUIDs : Cardinality(InFlight(u)) <= 1
    /\ \A u \in UUIDs : u \in uuidMap <=> InFlight(u) # {}
    /\ \A t \in DOMAIN tasks :
          tasks[t].pc = "dropped" =>
             /\ tasks[t].op = "none"
             /\ tasks[t].reply = NoMsg
             /\ ~tasks[t].replied

\* C5, reached: one goroutine is in flight and a second one of the same uuid
\* was dropped.
C5_DuplicateDropped ==
    \E i, j \in DOMAIN tasks :
        /\ i # j
        /\ tasks[i].msg.uuid = tasks[j].msg.uuid
        /\ tasks[i].guard
        /\ tasks[i].op # "none"
        /\ tasks[j].pc = "dropped"

\* C6 as stated: of two requests of one uuid, the second started before the
\* reply to the first was sent, at most one is answered.
C6_OneReplyForTwo ==
    \A i, j \in DOMAIN tasks :
        i \in tasks[j].peers => ~(tasks[i].replied /\ tasks[j].replied)

\* C6, amended: a request whose goroutine starts while another goroutine of
\* the same uuid holds the guard (is between createUUIDEntry and
\* deleteUUIDEntry) is dropped and never answered, so that at most one
\* reply is sent for the two.
C6_DroppedWhileGuardHeld ==
    \A j \in DOMAIN tasks :
        tasks[j].held =>
           /\ tasks[j].pc = "dropped"
           /\ ~tasks[j].replied
           /\ tasks[j].peers # {}

\* C6, reached: the first request was answered and the second, started
\* while the first held the guard, was dropped.
C6_FirstAnsweredSecondDropped ==
    \E i, j \in DOMAIN tasks :
        /\ i \in tasks[j].peers
        /\ tasks[j].held
        /\ tasks[i].replied
        /\ tasks[j].pc = "dropped"

\* C7: once the transaction context of an iterator is out of txCtxs and no
\* goroutine is scanning the iterator, the iterator has been closed.
C7_ClosedWhenContextGone ==
    \A i \in DOMAIN iters :
        LET c == iters[i].ctx IN
        (/\ txCtxs[ctxs[c].uuid] # c
         /\ \A t \in DOMAIN tasks : tasks[t].it = i => tasks[t].pc # "drain")
        => iters[i].closes >= 1

\* goroutine t builds the RESPONSE of a scan in this step
BuildsScanFrame(t) ==
    /\ tasks[t].msg.type \in {"RANGE_QUERY_STATE", "RANGE_QUERY_STATE_NEXT"}
    /\ tasks[t].pc \in {"work", "drain"}
    /\ tasks'[t].pc = "send"
    /\ tasks'[t].reply.type = "RESPONSE"

\* C8: a RESPONSE to RANGE_QUERY_STATE or RANGE_QUERY_STATE_NEXT carries at
\* most maxRangeQueryStateLimit pairs, and when it is built its HasMore is
\* true exactly when the iterator of its ID is still in the iterator map of
\* the context; with HasMore false the iterator was closed and removed.
C8_PageAndHasMore ==
    [][\A t \in DOMAIN tasks :
          BuildsScanFrame(t) =>
             LET f == tasks'[t].reply
                 c == tasks'[t].ctx
             IN  /\ f.n <= maxRangeQueryStateLimit
                 /\ f.more <=> f.id \in ctxs'[c].iters
                 /\ ~f.more => iters'[f.id].closes >= 1]_vars

\* C8, reached: a full page with HasMore true waits to be sent.
C8_FullPageBuilt ==
    \E t \in DOMAIN tasks :
        /\ tasks[t].pc = "send"
        /\ tasks[t].reply.type = "RESPONSE"
        /\ tasks[t].reply.n = maxRangeQueryStateLimit
        /\ tasks[t].reply.more
        /\ tasks[t].reply.id \in ctxs[tasks[t].ctx].iters

\* the frames with entries of iterator i, in the order they were sent
IsPageOf(f, i) == f.type = "RESPONSE" /\ f.id = i /\ f.n > 0
PagesOf(i) == SelectSeq(sent, LAMBDA f : IsPageOf(f, i))

\* C9: for a range of N entries scanned by RANGE_QUERY_STATE and then
\* RANGE_QUERY_STATE_NEXT on the returned ID, with no terminal frame closing
\* the iterator in between, the k-th frame holds the entries from
\* (k-1)K + 1 on, K of them with HasMore true while entries are left after
\* it, the rest with HasMore false in the last one (a single frame with
\* HasMore false when N < K, an empty one when N = 0); after the frame with
\* HasMore false the ID is out of the iterator map and Close was called
\* once.
C9_PagesInOrder ==
    /\ \A i \in DOMAIN iters :
          ~iters[i].notified =>
             LET N == iters[i].n
                 F == PagesOf(i)
             IN  /\ \A k \in DOMAIN F :
                       /\ F[k].first = (k - 1) * K + 1
                       /\ F[k].n = Min(K, N - (k - 1) * K)
                       /\ F[k].more <=> k * K < N
                 /\ (\E k \in DOMAIN F : ~F[k].more) =>
                       /\ i \notin ctxs[iters[i].ctx].iters
                       /\ iters[i].closes = 1
    /\ \A t \in DOMAIN tasks :
          (/\ tasks[t].msg.type = "RANGE_QUERY_STATE"
           /\ tasks[t].reply.type = "RESPONSE"
           /\ tasks[t].msg.n < K)
          => /\ tasks[t].reply.n = tasks[t].msg.n
             /\ ~tasks[t].reply.more

\* C9, reached: a range of more than two pages was delivered in three
\* frames, the last one with HasMore false.
C9_ThreePagesSent ==
    \E i \in DOMAIN iters :
        /\ ~iters[i].notified
        /\ iters[i].n > 2 * K
        /\ Len(PagesOf(i)) = 3
        /\ ~PagesOf(i)[3].more

\* C10: when processStream has returned on the end of the stream, no caller
\* is left waiting on an empty response channel.
C10_NoWaiterLeft ==
    (pump.pc = "done" /\ pump.result \in {"EOF", "err"}) =>
        \A c \in DOMAIN calls :
            calls[c].pc = "wait" => Len(ctxs[calls[c].ctx].chan) > 0

\* C11: whenever HandleMessage or the forward of a nextState message
\* returned an error, or the stream ended, processStream has returned and
\* the handler is not registered any more.
C11_EveryFailureEndsThePump ==
    pump.ret # "nil" => pump.pc = "done" /\ registry # "registered"

\* C12: at most one receiver goroutine of processStream exists, it exists
\* exactly while a Recv is pending or its result is not taken yet, and
\* none exists while the pump is still busy with an inbound frame.
C12_OneRecvOutstanding ==
    /\ rcv.out \in {0, 1}
    /\ rcv.out = 1 <=> rcv.pc \in {"recv", "ret"}
    /\ (pump.pc \in {"notify", "fwd"} /\ pump.recv) => rcv.out = 0

\* C12, reached: after the REGISTER, a READY of the host was handled from
\* nextState and forwarded while the Recv was pending, and the pump is back
\* at its select with that one Recv.
C12_NextStateWhileRecvPending ==
    /\ nframes = 1
    /\ pump.pc = "select"
    /\ pump.ev = "READY"
    /\ rcv.pc = "recv"
    /\ rcv.out = 1
    /\ \E i \in DOMAIN sent : sent[i].type = "READY"

\* C13: a step that handles an inbound PUT_STATE, DEL_STATE or
\* INVOKE_CHAINCODE the FSM cannot accept, for a uuid that is not marked as
\* a transaction, makes one Send, of an ERROR frame with that uuid (nothing
\* is written when the Send fails), starts no goroutine, leaves the FSM
\* state and isTransaction as they are, and processStream returns the
\* error of HandleMessage with the handler deregistered.
C13_WriteInQueryContext ==
    [][LET m == pump'.msg IN
       (/\ nframes' = nframes + 1
        /\ m.type \in WriteTypes
        /\ Cannot(fsm, m.type)
        /\ ~getIsTransaction(isTransaction, m.uuid))
       => /\ sent' \in {sent, Append(sent, Msg("ERROR", m.uuid))}
          /\ tasks' = tasks
          /\ fsm' = fsm
          /\ isTransaction' = isTransaction
          /\ pump'.pc = "done"
          /\ pump'.ret = "handle"
          /\ registry' # "registered"]_vars

\* C13, reached: a PUT_STATE came in ready for a uuid marked as a query,
\* the ERROR frame is the last frame written and the pump has returned.
C13_PutStateRefusedInReady ==
    /\ pump.pc = "done"
    /\ pump.ret = "handle"
    /\ pump.msg.type = "PUT_STATE"
    /\ fsm = readystate
    /\ isTransaction[pump.msg.uuid] = "false"
    /\ Len(sent) > 0
    /\ sent[Len(sent)] = Msg("ERROR", pump.msg.uuid)
    /\ tasks = <<>>

\* C14: a step in which the host calls initOrReady or sendExecuteMessage
\* for a uuid that has a transaction context fails the call and leaves the
\* table, every context, the frames sent, the FSM state and isTransaction
\* as they are; for a uuid without one it makes a context with an empty
\* response channel and an empty iterator map.  A failed call does nothing
\* afterwards, and no response channel ever holds more than ChanCap frames.
C14_CreateTxContext ==
    [][/\ Len(calls') = Len(calls) + 1 =>
            LET k == calls'[Len(calls')]
                u == k.msg.uuid
            IN  IF txCtxs[u] # 0
                THEN /\ k.pc = "failed"
                     /\ k.ctx = 0
                     /\ txCtxs' = txCtxs
                     /\ ctxs' = ctxs
                     /\ sent' = sent
                     /\ sending' = sending
                     /\ fsm' = fsm
                     /\ isTransaction' = isTransaction
                ELSE /\ Len(ctxs') = Len(ctxs) + 1
                     /\ k.ctx = Len(ctxs')
                     /\ ctxs'[k.ctx].uuid = u
                     /\ ctxs'[k.ctx].chan = <<>>
                     /\ ctxs'[k.ctx].iters = {}
                     /\ txCtxs'[u] \in {0, k.ctx}
                     /\ k.pc # "failed" => txCtxs'[u] = k.ctx
       /\ \A c \in DOMAIN calls : calls[c].pc = "failed" => calls'[c] = calls[c]
       /\ \A c \in DOMAIN ctxs' : Len(ctxs'[c].chan) <= ChanCap]_vars

\* C14, reached: a second call for a uuid whose context the first call
\* made, and still holds, has failed.
C14_SecondCallRefused ==
    /\ Len(calls) = 2
    /\ calls[2].pc = "failed"
    /\ calls[2].ctx = 0
    /\ calls[1].ctx # 0
    /\ calls[1].msg.uuid = calls[2].msg.uuid
    /\ txCtxs[calls[2].msg.uuid] = calls[1].ctx

C16_SendExecuteMessage ==
    [][/\ Len(calls') = Len(calls) + 1 =>
            LET k == calls'[Len(calls')] IN
            (k.kind \in {"tx", "query"} /\ k.pc # "failed")
            => /\ isTransaction'[k.msg.uuid] =
                     (IF k.msg.type = "QUERY" THEN "false" ELSE "true")
               /\ k.pc = (IF k.msg.type = "TRANSACTION" THEN "trigger" ELSE "send")
               /\ fsm' = fsm
               /\ sent' = sent
       /\ \A c \in DOMAIN calls :
            (calls[c].pc = "sending" /\ calls'[c].pc # "sending")
            => /\ fsm' = fsm
               /\ calls[c].msg.type # "TRANSACTION"
               /\ \/ calls'[c].pc = "wait" /\ sent' = Append(sent, calls[c].msg)
                                          /\ txCtxs' = txCtxs
                  \/ calls'[c].pc = "failed" /\ sent' = sent
                                            /\ txCtxs'[calls[c].msg.uuid] = 0
       /\ (pump'.pc = "fwd" /\ pump'.msg.type = "TRANSACTION")
            => fsm' = transactionstate]_vars

C18_NestedFailureRepliesError ==
    [][/\ \A t \in DOMAIN tasks :
            (tasks[t].msg.type = "INVOKE_CHAINCODE"
             /\ tasks[t].pc \in {"work", "exec"}
             /\ tasks'[t].failed)
            => /\ tasks'[t].pc = "trigger"
               /\ tasks'[t].reply = Msg("ERROR", tasks[t].msg.uuid)
       /\ (\E t \in DOMAIN tasks :
               tasks[t].msg.type = "INVOKE_CHAINCODE"
               /\ tasks[t].pc = "exec")
            => crashed' = crashed
       /\ \A t \in DOMAIN tasks :
            (tasks[t].msg.type = "INVOKE_CHAINCODE"
             /\ tasks[t].pc = "trigger" /\ tasks'[t].pc = "done"
             /\ tasks[t].reply.type = "ERROR"
             /\ tasks[t].failed
             /\ fsm \in {busyinitstate, busyxactstate})
            => /\ fsm' = IF fsm = busyinitstate THEN initstate
                         ELSE transactionstate
               /\ pump'.pc = "fwd" /\ pump'.msg = tasks[t].reply
               /\ sent' = sent
               /\ registry' = registry
       /\ (pump.pc = "fwd" /\ pump.ev = "ERROR" /\ sent' # sent)
            => /\ sent' = Append(sent, pump.msg)
               /\ pump'.pc = "select"
               /\ registry' = registry]_vars

\* C19: the pump is never blocked for ever in notify, delivering on the
\* ResponseChan of a context: whenever it waits there (with the handler
\* mutex held) for room in the channel, a caller of that context is still
\* waiting to take the frame that fills it.
C19_DeliveryNeverBlocksForever ==
    (/\ pump.pc = "notify"
     /\ Len(ctxs[txCtxs[pump.dmsg.uuid]].chan) >= ChanCap)
    => \E c \in DOMAIN calls :
          /\ calls[c].ctx = txCtxs[pump.dmsg.uuid]
          /\ calls[c].pc = "wait"

\* C20: a RANGE_QUERY_STATE_CLOSE whose id is not in the iterator map of the
\* TxCtx of its uuid changes no iterator, no iterator map and no table, and
\* its reply is RESPONSE with HasMore false and the given id; with an id of
\* the map that iterator gets one Close, leaves the map, and the reply is
\* the same RESPONSE.  The reply is the frame put on the stream.
C20_CloseUnknownIsNoOp ==
    [][\A t \in DOMAIN tasks :
          LET tk == tasks[t]
              u  == tk.msg.uuid
              c  == txCtxs[u]
              id == tk.msg.id
          IN  /\ (/\ tk.msg.type = "RANGE_QUERY_STATE_CLOSE"
                  /\ tk.pc = "work" /\ tasks'[t].pc # "work"
                  /\ tk.msg.ok /\ c # 0)
                 => /\ tasks'[t].pc = "send"
                    /\ tasks'[t].reply.type = "RESPONSE"
                    /\ tasks'[t].reply.uuid = u
                    /\ tasks'[t].reply.id = id
                    /\ ~tasks'[t].reply.more
                    /\ tasks'[t].reply.n = 0
                    /\ txCtxs' = txCtxs /\ isTransaction' = isTransaction
                    /\ fsm' = fsm /\ sent' = sent /\ ~crashed'
                    /\ IF id \in ctxs[c].iters
                       THEN /\ iters'[id].closes = iters[id].closes + 1
                            /\ \A j \in DOMAIN iters \ {id} :
                                  iters'[j] = iters[j]
                            /\ ctxs'[c].iters = ctxs[c].iters \ {id}
                            /\ \A x \in DOMAIN ctxs \ {c} :
                                  ctxs'[x] = ctxs[x]
                       ELSE iters' = iters /\ ctxs' = ctxs
              /\ (/\ tk.msg.type = "RANGE_QUERY_STATE_CLOSE"
                  /\ tk.pc = "sending" /\ tasks'[t].pc # "sending")
                 => /\ sent' = Append(sent, tk.reply)
                    /\ iters' = iters /\ ctxs' = ctxs
                    /\ txCtxs' = txCtxs]_vars

\* A scan was opened and closed by a RANGE_QUERY_STATE_CLOSE with its id,
\* and a RANGE_QUERY_STATE_CLOSE with an id no iterator ever had was
\* answered with RESPONSE.
C20_KnownAndUnknownClosed ==
    /\ Len(iters) = 1
    /\ iters[1].closes = 1
    /\ iters[1].pos < iters[1].n
    /\ ~iters[1].notified
    /\ \E t1, t2 \in DOMAIN tasks :
          /\ tasks[t1].msg.type = "RANGE_QUERY_STATE_CLOSE"
          /\ tasks[t1].msg.id = 1 /\ tasks[t1].pc = "done"
          /\ tasks[t2].msg.type = "RANGE_QUERY_STATE_CLOSE"
          /\ tasks[t2].msg.id = 2 /\ tasks[t2].pc = "done"
          /\ t1 < t2
          /\ sent[Len(sent)] = CloseFrame(tasks[t2].msg.uuid, 2)
          /\ sent[Len(sent) - 1] = CloseFrame(tasks[t1].msg.uuid, 1)
          /\ \A c \in DOMAIN ctxs : ctxs[c].iters = {}

\* C21: in every reachable state isRunning() is true exactly when the FSM is
\* in ready, transaction, busyinit, busyxact or end, that is in none of
\* created, established, init.
C21_IsRunning ==
    /\ fsm \in States
    /\ isRunning(fsm) <=> fsm \in {readystate, transactionstate, busyinitstate,
                                   busyxactstate, endstate}
    /\ isRunning(fsm) <=> fsm \notin {createdstate, establishedstate, initstate}

\* the session was ended by an ERROR and isRunning() is still true
C21_RunningInEnd == fsm = endstate /\ isRunning(fsm) /\ pump.ev = "ERROR"

\* the goroutine t of enterBusyState found its uuid not marked as a
\* transaction: it made no call, and its reply is the ERROR of the refusal
RefusedWrite(t) ==
    /\ tasks[t].msg.type \in WriteTypes
    /\ tasks[t].msg.ok
    /\ tasks[t].pc = "trigger"
    /\ tasks[t].op = "none"
    /\ tasks[t].reply = Msg("ERROR", tasks[t].msg.uuid)

\* C22: the goroutine of enterBusyState, started for a PUT_STATE, DEL_STATE
\* or INVOKE_CHAINCODE whose uuid is not marked as a transaction, makes no
\* ledger call and no Execute, leaves the in-flight guard alone and hands
\* an ERROR with that uuid to the pump; the pump takes it with the FSM in
\* busyinit / busyxact, moves the FSM to init / transaction, forwards the
\* frame once and goes on.
C22_RefusedWriteReturnsToParent ==
    [][\A t \in DOMAIN tasks :
          /\ (/\ tasks[t].msg.type \in WriteTypes
              /\ tasks[t].pc = "start" /\ tasks'[t].pc # "start"
              /\ ~getIsTransaction(isTransaction, tasks[t].msg.uuid))
             => /\ tasks'[t].pc = "trigger"
                /\ tasks'[t].reply = Msg("ERROR", tasks[t].msg.uuid)
                /\ tasks'[t].op = "none"
                /\ ~tasks'[t].guard
                /\ uuidMap' = uuidMap
                /\ sent' = sent /\ fsm' = fsm
          /\ (RefusedWrite(t) /\ tasks'[t].pc # "trigger")
             => /\ tasks'[t].pc = "done"
                /\ tasks'[t].op = "none"
                /\ fsm \in {busyinitstate, busyxactstate}
                /\ fsm' = IF fsm = busyinitstate THEN initstate
                          ELSE transactionstate
                /\ pump'.pc = "fwd"
                /\ pump'.msg = tasks[t].reply
                /\ registry' = registry
                /\ sent' = sent
          /\ (/\ pump.pc = "fwd" /\ pump'.pc # "fwd"
              /\ tasks[t].pc = "done" /\ tasks[t].op = "none"
              /\ tasks[t].msg.type \in WriteTypes
              /\ pump.msg = tasks[t].reply /\ pump.msg.type = "ERROR")
             => \/ sent' = Append(sent, pump.msg) /\ pump'.pc = "select"
                                                 /\ registry' = registry
                \/ sent' = sent /\ pump'.ret = "send"]_vars

\* C23: the goroutine of a PUT_STATE, DEL_STATE or INVOKE_CHAINCODE never
\* calls serialSend; its reply reaches the pump as a nextState event, and
\* the pump goes on to forward it only when handling it moved the FSM from
\* busyinit to init or from busyxact to transaction; when the FSM refuses
\* the event nothing is forwarded.
C23_ReplyOnlyAfterBusyToParent ==
    [][\A t \in DOMAIN tasks :
          tasks[t].msg.type \in WriteTypes
          => /\ tasks[t].pc \notin {"send", "sending"}
             /\ (tasks[t].pc = "trigger" /\ tasks'[t].pc # "trigger")
                => /\ tasks'[t].pc = "done"
                   /\ sent' = sent
                   /\ pump'.pc = "fwd"
                      => /\ pump'.msg = tasks[t].reply
                         /\ fsm \in {busyinitstate, busyxactstate}
                         /\ fsm' = IF fsm = busyinitstate THEN initstate
                                   ELSE transactionstate
                   /\ Cannot(fsm, tasks[t].reply.type)
                      => pump'.pc \notin {"fwd", "notify"} /\ fsm' = fsm]_vars

C25_ReadEndsWithOneFrame ==
    [][\A t \in DOMAIN tasks :
          LET tk == tasks[t]
              u  == tk.msg.uuid
          IN  tk.msg.type \in ReadTypes
              => /\ (tk.pc \in {"work", "drain"} /\ tk.guard)
                    => /\ ~crashed'
                       /\ tasks'[t].pc \in {"work", "drain", "send"}
                       /\ tasks'[t].pc = "send"
                          => /\ u \notin uuidMap'
                             /\ ~tasks'[t].guard
                             /\ tasks'[t].reply.type \in {"RESPONSE", "ERROR"}
                             /\ tasks'[t].reply.uuid = u
                             /\ sent' = sent
                 /\ (tk.pc = "send" /\ tasks'[t].pc # "send")
                    => /\ tasks'[t].pc = "sending"
                       /\ tasks'[t].reply = tk.reply
                       /\ sent' = sent
                 /\ (tk.pc = "sending" /\ tasks'[t].pc # "sending")
                    => /\ tasks'[t].pc = "done"
                       /\ sent' \in {sent, Append(sent, tk.reply)}
                 /\ tk.pc = "done" => tasks'[t].pc = "done"]_vars

\* the goroutine t of a range scan is about to decrypt a value, and decrypt
\* will return an error
DecryptFails(t) ==
    LET tk == tasks[t]
        u  == tk.msg.uuid
        c  == txCtxs[u]
    IN  \/ /\ tk.msg.type = "RANGE_QUERY_STATE"
           /\ tk.pc = "drain"
           /\ IterNext(iters[tk.it].n, iters[tk.it].pos)
           /\ ~CryptoOk(ctxs, c)
        \/ /\ tk.msg.type = "RANGE_QUERY_STATE_NEXT"
           /\ tk.pc = "work" /\ tk.msg.ok
           /\ c # 0
           /\ tk.msg.id \in ctxs[c].iters
           /\ ~CryptoOk(ctxs, c)

\* C26: when decrypt fails in the scan loop of RANGE_QUERY_STATE or
\* RANGE_QUERY_STATE_NEXT, the goroutine ends with an ERROR of the request's
\* uuid as its reply, the iterator has one more Close and is out of the
\* iterator map of its context, and nothing panics.
C26_DecryptFailureRepliesError ==
    [][\A t \in DOMAIN tasks :
          (/\ DecryptFails(t)
           /\ tasks'[t] # tasks[t] \/ crashed' # crashed)
          => LET id == IF tasks[t].pc = "drain" THEN tasks[t].it
                       ELSE tasks[t].msg.id
             IN  /\ ~crashed'
                 /\ tasks'[t].pc = "send"
                 /\ tasks'[t].reply = Msg("ERROR", tasks[t].msg.uuid)
                 /\ iters'[id].closes = iters[id].closes + 1
                 /\ id \notin ctxs'[iters[id].ctx].iters]_vars

\* C27: every GetState and GetStateRangeScanIterator call is made with
\* readCommitted = ~getIsTransaction(uuid) as it is at the call, and a
\* request whose uuid was marked as a transaction when the pump handled it
\* reads with readCommitted = FALSE, any other with readCommitted = TRUE.
C27_ReadCommittedOfRequest ==
    \A t \in DOMAIN tasks :
        tasks[t].op \in {"GetState", "RangeScan"}
        => /\ tasks[t].committed = ~tasks[t].opIsT
           /\ tasks[t].committed = ~tasks[t].isT0

\* the goroutine of task t was given a payload that proto.Unmarshal rejects
Undecodable(t) ==
    /\ tasks[t].msg.type \in {"RANGE_QUERY_STATE", "RANGE_QUERY_STATE_NEXT",
                              "RANGE_QUERY_STATE_CLOSE", "PUT_STATE",
                              "INVOKE_CHAINCODE", "INVOKE_QUERY"}
    /\ ~tasks[t].msg.ok

\* C28: a goroutine whose payload does not unmarshal makes no ledger call
\* and no Execute and sets an ERROR with the uuid of the request as its
\* reply.  For the range scans and INVOKE_QUERY the reply goes out by
\* serialSend, one frame, and the pump is left as it was.  For PUT_STATE
\* and INVOKE_CHAINCODE the reply is handed to the pump, which takes it with
\* the FSM in busyinit / busyxact, moves the FSM to init / transaction,
\* forwards the frame and goes on.
C28_UndecodablePayloadRepliesError ==
    [][\A t \in DOMAIN tasks :
          Undecodable(t)
          => /\ tasks'[t].op = "none"
             /\ (tasks[t].pc = "work" /\ tasks'[t].pc # "work")
                => /\ tasks'[t].reply = Msg("ERROR", tasks[t].msg.uuid)
                   /\ tasks'[t].pc = IF tasks[t].msg.type \in WriteTypes
                                     THEN "trigger" ELSE "send"
                   /\ ~tasks'[t].guard
                   /\ sent' = sent /\ fsm' = fsm /\ iters' = iters
                   /\ ~crashed'
             /\ (tasks[t].pc = "sending" /\ tasks'[t].pc # "sending")
                => /\ tasks'[t].pc = "done"
                   /\ sent' = Append(sent, Msg("ERROR", tasks[t].msg.uuid))
                   /\ fsm' = fsm /\ pump' = pump /\ registry' = registry
             /\ (tasks[t].pc = "trigger" /\ tasks'[t].pc # "trigger")
                => /\ tasks'[t].pc = "done"
                   /\ fsm \in {busyinitstate, busyxactstate}
                   /\ fsm' = IF fsm = busyinitstate THEN initstate
                             ELSE transactionstate
                   /\ pump'.pc = "fwd"
                   /\ pump'.msg = Msg("ERROR", tasks[t].msg.uuid)
                   /\ registry' = registry
                   /\ sent' = sent]_vars

\* the message notify puts on the response channel for a QUERY_COMPLETED
\* (rewritten when the encryption fails) or a QUERY_ERROR with uuid u
QueryResult(typ, u) ==
    IF typ = "QUERY_COMPLETED" /\ CryptoOk(ctxs, txCtxs[u])
    THEN Msg("QUERY_COMPLETED", u) ELSE Msg("QUERY_ERROR", u)

\* C29: the step in which HandleMessage is given a QUERY_COMPLETED, a
\* QUERY_ERROR or an INVOKE_QUERY, in whatever FSM state, leaves the FSM
\* state alone and returns no error.  For QUERY_COMPLETED and QUERY_ERROR
\* the mark of the uuid is cleared and notify is given the message (for a
\* QUERY_COMPLETED whose encryption fails, the message as QUERY_ERROR): it
\* is put on the response channel of the uuid's context, at once or when
\* the channel has room.  For INVOKE_QUERY the goroutine of
\* handleQueryChaincode is started and nothing else changes.
C29_QueryFramesInEveryState ==
    [][/\ (nframes' # nframes
            /\ pump'.ev \in {"QUERY_COMPLETED", "QUERY_ERROR"})
           => /\ fsm' = fsm
              /\ pump'.ret = "nil" /\ pump'.pc \in {"select", "notify"}
              /\ sent' = sent /\ tasks' = tasks /\ registry' = registry
              /\ \E u \in UUIDs :
                    LET c == txCtxs[u]
                        m == QueryResult(pump'.ev, u)
                    IN
                    /\ isTransaction' = [isTransaction EXCEPT ![u] = "absent"]
                    /\ IF c = 0
                       THEN ctxs' = ctxs /\ pump'.pc = "select"
                       ELSE IF Len(ctxs[c].chan) < ChanCap
                       THEN /\ ctxs'[c].chan = Append(ctxs[c].chan, m)
                            /\ pump'.pc = "select"
                       ELSE /\ ctxs' = ctxs
                            /\ pump'.pc = "notify" /\ pump'.dmsg = m
       /\ (pump.pc = "notify" /\ pump' # pump
            /\ pump.ev \in {"QUERY_COMPLETED", "QUERY_ERROR"})
           => LET c == txCtxs[pump.dmsg.uuid] IN
              /\ ctxs'[c].chan = Append(ctxs[c].chan, pump.dmsg)
              /\ fsm' = fsm
              /\ pump'.ret = "nil" /\ pump'.pc = "select"
       /\ (nframes' # nframes /\ pump'.ev = "INVOKE_QUERY")
           => /\ fsm' = fsm
              /\ pump'.ret = "nil" /\ pump'.pc = "select"
              /\ Len(tasks') = Len(tasks) + 1
              /\ tasks'[Len(tasks')].msg.type = "INVOKE_QUERY"
              /\ tasks'[Len(tasks')].pc = "start"
              /\ \A t \in DOMAIN tasks : tasks'[t] = tasks[t]
              /\ isTransaction' = isTransaction
              /\ ctxs' = ctxs /\ sent' = sent /\ registry' = registry]_vars

\* C29, reached: a QUERY_COMPLETED whose encryption failed was delivered as
\* QUERY_ERROR on the response channel of its uuid, with the FSM in ready
\* and the mark of the uuid cleared.
C29_RewrittenDelivered ==
    \E c \in DOMAIN ctxs :
       /\ fsm = readystate
       /\ pump.ev = "QUERY_COMPLETED" /\ pump.pc = "select"
       /\ ctxs[c].sec = "nil"
       /\ ctxs[c].chan = <<Msg("QUERY_ERROR", ctxs[c].uuid)>>
       /\ isTransaction[ctxs[c].uuid] = "absent"

\* C30: on a stream whose Recv ends with io.EOF or another error, never
\* with a nil message, the step in which processStream takes the result of
\* that Recv from msgAvail returns the error Recv returned.
C30_RecvErrorReturned ==
    [][(/\ pump.pc = "select" /\ pump'.pc = "done"
        /\ rcv.pc = "ret" /\ rcv.in = NoMsg /\ rcv'.pc = "idle")
       => pump'.result \in env.ends]_vars

\* the goroutine of task t is inside chaincodeSupport.Execute for an
\* INVOKE_CHAINCODE
NestedRunning(t) ==
    tasks[t].msg.type = "INVOKE_CHAINCODE" /\ tasks[t].pc = "exec"

\* C31: while the nested Execute of an INVOKE_CHAINCODE is running, the
\* pump takes no frame from its own stream; the only message it handles is
\* the RESPONSE or ERROR the goroutine hands it when Execute has returned.
C31_NoInboundWhileNested ==
    [][(\E t \in DOMAIN tasks : NestedRunning(t)) => nframes' = nframes]_vars

\* C32: once an initOrReady has set handler.deployTXSecContext, no later
\* step changes it.
C32_DeployTxSecStoredOnce ==
    [][deployTXSecContext # "nil"
       => deployTXSecContext' = deployTXSecContext]_vars

\* C33: whenever the FSM is in busyinit or busyxact it later is not, unless
\* processStream has returned or the process has panicked.
C33_BusyIsLeft ==
    (fsm \in {busyinitstate, busyxactstate})
       ~> (fsm \notin {busyinitstate, busyxactstate}
           \/ pump.pc = "done" \/ crashed)

\* C34: once Close() was called on a range-scan iterator, no step of the
\* handler calls Close() or Next() on it again.
C34_ClosedIteratorLeftAlone ==
    [][\A i \in DOMAIN iters :
          iters[i].closes >= 1 => iters'[i] = iters[i]]_vars

\* C35: SetState, DeleteState and the nested Execute of INVOKE_CHAINCODE are
\* called only with the FSM in busyinit or busyxact.
C35_WritesOnlyWhileBusy ==
    \A t \in DOMAIN tasks :
        (/\ tasks[t].msg.type \in WriteTypes
         /\ tasks[t].op \in {"SetState", "DeleteState", "Execute"})
        => tasks[t].opFsm \in {busyinitstate, busyxactstate}

\* C36: the step in which the pump takes from nextState the TRANSACTION of
\* a sendExecuteMessage while the FSM is in transaction or busyxact leaves
\* the FSM state alone, sends nothing, does not go on to forward the frame,
\* and processStream returns the error of HandleMessage.
C36_SecondTransactionEndsThePump ==
    [][\A c \in DOMAIN calls :
          (/\ calls[c].pc = "trigger" /\ calls'[c].pc # "trigger"
           /\ calls[c].msg.type = "TRANSACTION"
           /\ fsm \in {transactionstate, busyxactstate})
          => /\ fsm' = fsm
             /\ sent' = sent
             /\ pump'.pc = "done"
             /\ pump'.result = "handle"
             /\ registry' # "registered"]_vars

\* C37: GetState and GetStateRangeScanIterator are called only for a uuid
\* that has a transaction context in txCtxs at the call.
C37_ReadsOnlyWithContext ==
    \A t \in DOMAIN tasks :
        tasks[t].op \in {"GetState", "RangeScan"} => tasks[t].opCtx # 0

\* C38: the step that handles a GET_STATE or a RANGE_QUERY_STATE[_NEXT,
\* _CLOSE] frame the FSM accepts starts one goroutine and changes nothing
\* else; every step of such a goroutine leaves the FSM state, isTransaction
\* and txCtxs as they are, puts nothing on a response channel, and sends at
\* most its reply.
C38_ReadsChangeNothing ==
    [][/\ (/\ nframes' # nframes
            /\ pump'.ev \in ReadTypes
            /\ ~Cannot(fsm, pump'.ev))
           => /\ fsm' = fsm
              /\ isTransaction' = isTransaction
              /\ txCtxs' = txCtxs
              /\ ctxs' = ctxs /\ iters' = iters
              /\ sent' = sent /\ uuidMap' = uuidMap
              /\ pump'.ret = "nil" /\ pump'.pc = "select"
              /\ Len(tasks') = Len(tasks) + 1
              /\ tasks'[Len(tasks')].msg.type = pump'.ev
              /\ \A t \in DOMAIN tasks : tasks'[t] = tasks[t]
       /\ \A t \in DOMAIN tasks :
             (tasks[t].msg.type \in ReadTypes /\ tasks'[t] # tasks[t])
             => /\ fsm' = fsm
                /\ isTransaction' = isTransaction
                /\ txCtxs' = txCtxs
                /\ pump' = pump
                /\ \A c \in DOMAIN ctxs :
                      /\ ctxs'[c].chan = ctxs[c].chan
                      /\ ctxs'[c].delivered = ctxs[c].delivered
                /\ sent' \in {sent, Append(sent, tasks[t].reply)}]_vars

\* C38, reached: a RANGE_QUERY_STATE was handled and answered with the FSM
\* in ready while the READY of the host call is still the only frame on the
\* response channel of the uuid, whose iterator is open.
C38_ReadInReady ==
    /\ fsm = readystate
    /\ \E t \in DOMAIN tasks :
          /\ tasks[t].msg.type = "RANGE_QUERY_STATE"
          /\ tasks[t].pc = "done" /\ tasks[t].replied
          /\ tasks[t].opFsm = readystate
          /\ tasks[t].ctx # 0
          /\ ctxs[tasks[t].ctx].chan = <<Msg("READY", tasks[t].msg.uuid)>>
          /\ ctxs[tasks[t].ctx].delivered = 1
          /\ tasks[t].it \in ctxs[tasks[t].ctx].iters
          /\ iters[tasks[t].it].closes = 0


====
